---- MODULE Spec2Model ----
(***************************************************************************)
(* A model of torch/_inductor/graph.py (class GraphLowering): the constant *)
(* table, the operator dispatcher, the user/read graph with mutation       *)
(* marking, the output rewrite and the layout-optimization decision.       *)
(*                                                                         *)
(* Each component has a specification of its own (SpecConst, SpecDispatch, *)
(* SpecMut, SpecOutput, SpecLayout); the variables of the other components *)
(* keep their initial value under it.                                      *)
(***************************************************************************)
EXTENDS Integers, Sequences, FiniteSets, TLC

VARIABLES
    constants,          \* GraphLowering.constants: OrderedDict name -> tensor, as a sequence of entries
    constant_reprs,     \* GraphLowering.constant_reprs: dict name -> sha256 of repr(tensor)
    call,               \* the last operation called, with its arguments
    ret,                \* what the last operation returned (a name, a boolean, ...)
    exc,                \* the exception the last operation raised, NoExc if it returned
    inputs,             \* the tensors, names and devices the calls of this run draw their arguments from
    lowerings,          \* lowering.lowerings: the process-wide registry, operator -> kind of handler
    implicit_fallbacks, \* config.implicit_fallbacks
    dispatch,           \* what the last call dispatched to, and what that handler raised
    graph_id,           \* the GraphLowering of the process that is being lowered (1, 2, ...)
    name_to_users,      \* GraphLowering.name_to_users: buffer name -> list of the IR nodes that read it
    mutated_buffers,    \* GraphLowering.mutated_buffers
    realized,           \* the IR nodes that have been realized into a buffer
    buffers,            \* GraphLowering.buffers: the realized buffers, in order of registration
    name_to_buffer,     \* GraphLowering.name_to_buffer: buffer name -> buffer
    graph_inputs,       \* GraphLowering.graph_inputs: OrderedDict name -> TensorBox or sympy expression
    graph_inputs_original, \* GraphLowering.graph_inputs_original: name -> the InputBuffer made by placeholder
    graph_outputs,      \* GraphLowering.graph_outputs: None, or the list of output slots
    storage,            \* StorageBox.data of every storage box: the IR node the box holds
    mutations,          \* the copy-based mutations MutationLayout.realize_into has set up
    device_types,       \* GraphLowering.device_types
    device_idxs,        \* GraphLowering.device_idxs
    gm,                 \* the traced graph decide_layout_opt looks at
    decisions,          \* history of the run: what every call of decide_layout_opt was given and returned
    config,             \* torch._inductor.config (layout_optimization)
    runtime,            \* torch.version.hip, torch.cuda.is_available(), torch.backends.mkldnn
    module_graph,       \* self.module.graph: the nodes in trace order, their users, the convolutions
    nodes_prefer_channels_last, \* GraphLowering.nodes_prefer_channels_last
    shape_env,          \* GraphLowering._shape_env: the symbols allocated so far, with their hints and sources
    reuse_shape_env,    \* GraphLowering.reuse_shape_env
    input_layouts,      \* the sizes and strides of the FixedLayout of every input buffer, and its example
    example_pool,       \* the example values the placeholder nodes of this run carry
    cpp_wrapper,        \* GraphLowering.cpp_wrapper
    cuda,               \* GraphLowering.cuda
    wrapper_code,       \* GraphLowering.wrapper_code: None, or the wrapper generator selected
    scheduler,          \* GraphLowering.scheduler: None, or the Scheduler of the buffers
    generated,          \* whether wrapper_code.generate() has produced code
    codegen_env,        \* config.disable_cpp_codegen and sys.platform
    current_node,       \* the fx node run_node is called with
    node_result,        \* the value the node is lowered to
    node_args,          \* fetch_args_kwargs_from_env(n): the nodes n reads and the values self.env holds for them
    user_visible_outputs, \* self.user_visible_outputs
    lowering_flags      \* self.layout_opt, torch._C._has_mkldnn and torch._C.has_mkl

constVars == <<constants, constant_reprs, inputs>>
dispatchVars == <<lowerings, implicit_fallbacks, dispatch, graph_id>>
mutVars == <<name_to_users, mutated_buffers, realized, buffers, name_to_buffer>>
outVars == <<graph_inputs, graph_inputs_original, graph_outputs, storage,
             mutations, device_types, device_idxs>>
layVars == <<gm, config, runtime, decisions>>
prefVars == <<module_graph, nodes_prefer_channels_last>>
shapeVars == <<shape_env, reuse_shape_env, input_layouts, example_pool>>
cgVars == <<cpp_wrapper, cuda, wrapper_code, scheduler, generated, codegen_env>>
nodeVars == <<current_node, node_result, node_args, user_visible_outputs, lowering_flags>>

vars == <<constants, constant_reprs, call, ret, exc, inputs,
          lowerings, implicit_fallbacks, dispatch, graph_id,
          name_to_users, mutated_buffers, realized, buffers, name_to_buffer,
          graph_inputs, graph_inputs_original, graph_outputs, storage,
          mutations, device_types, device_idxs, gm, config, runtime,
          decisions,
          module_graph, nodes_prefer_channels_last,
          shape_env, reuse_shape_env, input_layouts, example_pool,
          cpp_wrapper, cuda, wrapper_code, scheduler, generated, codegen_env,
          current_node, node_result, node_args, user_visible_outputs,
          lowering_flags>>

(***************************************************************************)
(* Bounds of the model.                                                    *)
(***************************************************************************)
\* The constant table grows to at most MaxConstants entries.
MaxConstants == 3
\* The process lowers at most MaxGraphs graphs, one after the other.
MaxGraphs == 2
\* register_users_of is called while no list of name_to_users would grow
\* beyond MaxUsers nodes.
MaxUsers == 2

(***************************************************************************)
(* Python values.                                                          *)
(***************************************************************************)
\* An Optional[str]: None, or a str as the sequence of its characters.
NoName == [some |-> FALSE, s |-> <<>>]

\* No exception, and an exception of a builtin type.
NoExc == [type |-> "none"]
Raised(type) == [type |-> type]

SomeName(s) == [some |-> TRUE, s |-> s]

Range(f) == {f[i] : i \in DOMAIN f}

LowerChars == {"a","b","c","d","e","f","g","h","i","j","k","l","m",
               "n","o","p","q","r","s","t","u","v","w","x","y","z"}
UpperChars == {"A","B","C","D","E","F","G","H","I","J","K","L","M",
               "N","O","P","Q","R","S","T","U","V","W","X","Y","Z"}
DigitSeq == <<"0","1","2","3","4","5","6","7","8","9">>
DigitChars == Range(DigitSeq)

\* str.isdigit() of one character (the ASCII digits of the model's alphabet).
isdigit(c) == c \in DigitChars

\* f"{n}" of a non-negative int.
RECURSIVE Str(_)
Str(n) == IF n < 10 THEN <<DigitSeq[n + 1]>>
          ELSE Append(Str(n \div 10), DigitSeq[(n % 10) + 1])

\* re.sub(r"[^a-zA-Z0-9_]", "_", name)
re_sub_sane(name) ==
    [i \in 1..Len(name) |->
        IF name[i] \in LowerChars \cup UpperChars \cup DigitChars \cup {"_"}
        THEN name[i] ELSE "_"]

(***************************************************************************)
(* Tensors: what add_tensor_constant reads of a torch.Tensor.              *)
(***************************************************************************)
\* torch.device: cpu carries no index, a cuda tensor lives on cuda:<index>.
CpuDevice == [type |-> "cpu", has_index |-> FALSE, index |-> 0]
CudaDevice(i) == [type |-> "cuda", has_index |-> TRUE, index |-> i]
\* device_override = None in constant_name.
NoDevice == [type |-> "None", has_index |-> FALSE, index |-> 0]

\* Element values are written as the literals repr() prints.
\* torch.eq of two elements: IEEE equality, so nan equals nothing and
\* -0.0 equals 0.0.
IeeeValue(x) == IF x = "-0." THEN "0." ELSE x
ElemEq(x, y) == x # "nan" /\ y # "nan" /\ IeeeValue(x) = IeeeValue(y)

\* torch.eq(data, value).all() for two tensors of the same size.
TorchEqAll(data, value) ==
    \A i \in 1..Len(data.vals) : ElemEq(data.vals[i], value.vals[i])

BaseTensor ==
    [size |-> <<2>>, stride |-> <<1>>, dtype |-> "float32",
     device |-> CpuDevice, vals |-> <<"1.", "0.">>, is_mkldnn |-> FALSE]

\* The tensors the model adds: the base tensor and tensors that differ from
\* it in one respect, the layout (mkldnn, an opaque tensor) included.
Tensors ==
    { BaseTensor,
      [BaseTensor EXCEPT !.vals = <<"1.", "1.">>],
      [BaseTensor EXCEPT !.vals = <<"1.", "-0.">>],
      [BaseTensor EXCEPT !.vals = <<"1.", "nan">>],
      [BaseTensor EXCEPT !.stride = <<2>>],
      [BaseTensor EXCEPT !.dtype = "float64"],
      [BaseTensor EXCEPT !.device = CudaDevice(0)],
      [BaseTensor EXCEPT !.size = <<1>>, !.vals = <<"1.">>],
      [BaseTensor EXCEPT !.is_mkldnn = TRUE] }

NanTensor == [BaseTensor EXCEPT !.vals = <<"1.", "nan">>]
CudaTensor == [BaseTensor EXCEPT !.device = CudaDevice(0)]

\* The names suggested to add_tensor_constant.
SuggestedNames ==
    { NoName,
      SomeName(<<"c">>),
      SomeName(<<"c", ".", "0">>),
      SomeName(<<"1", "c">>),
      SomeName(<<"c", "_", "c", "u", "d", "a", "0">>),
      SomeName(<<"c", "o", "n", "s", "t", "a", "n", "t", "1">>),
      SomeName(<<>>) }

\* The devices constant_name is asked for.
OverrideDevices == {NoDevice, CpuDevice, CudaDevice(0), CudaDevice(1)}

\* A run draws its arguments from one of three families: every tensor under
\* default names, every name with two tensors (one of them never equal to
\* itself), every device with a cpu and a cuda tensor.
InputFamilies ==
    { [tensors |-> Tensors, names |-> {NoName}, devices |-> {CudaDevice(0)}],
      [tensors |-> {BaseTensor, NanTensor}, names |-> SuggestedNames,
       devices |-> {CudaDevice(0)}],
      [tensors |-> {BaseTensor, CudaTensor},
       names |-> {SomeName(<<"c">>), SomeName(<<"c", "_", "c", "u", "d", "a", "0">>)},
       devices |-> OverrideDevices] }

(***************************************************************************)
(* The constant table (an OrderedDict) as a sequence of entries.           *)
(***************************************************************************)
Keys(d) == {d[i].name : i \in DOMAIN d}
IndexOfKey(d, k) == CHOOSE i \in DOMAIN d : d[i].name = k
Lookup(d, k) == d[IndexOfKey(d, k)].data

\* d[k] = v: in place when k is a key, at the end otherwise.
DictSet(d, k, v) ==
    IF k \in Keys(d)
    THEN [d EXCEPT ![IndexOfKey(d, k)] = [name |-> k, data |-> v]]
    ELSE Append(d, [name |-> k, data |-> v])

\* repr(data): the values (their nesting shows the shape), the device unless
\* cpu, the dtype unless the default, the layout unless strided.  The strides
\* are not printed.
Repr(data) ==
    [vals |-> data.vals, size |-> data.size,
     device |-> IF data.device.type = "cpu" THEN <<>>
                ELSE <<data.device.type, data.device.index>>,
     dtype |-> IF data.dtype = "float32" THEN "" ELSE data.dtype,
     layout |-> IF data.is_mkldnn THEN "torch._mkldnn" ELSE ""]

\* hashlib.sha256(text).hexdigest(): a function of the text, taken to be
\* free of collisions.
Sha256(text) == <<"sha256", text>>

(***************************************************************************)
(* GraphLowering.add_tensor_constant and GraphLowering.constant_name.      *)
(***************************************************************************)
\* The comparisons the scan in allocate() makes before torch.eq.
SameLayout(data, value) ==
    /\ ~data.is_mkldnn
    /\ data.size = value.size
    /\ data.stride = value.stride
    /\ data.dtype = value.dtype
    /\ data.device = value.device

\* torch.eq(data, value) of a dense tensor and an opaque entry: torch has
\* no kernel for it and raises.
TorchEqRaises(data, value) == SameLayout(data, value) /\ value.is_mkldnn

\* The condition of the scan in allocate(): value is an existing entry.
Matches(data, value) ==
    /\ SameLayout(data, value)
    /\ ~value.is_mkldnn
    /\ TorchEqAll(data, value)

\* The scan: the index of the first entry at which it stops, because the
\* entry matches or because the comparison raises; 0 when it runs through.
ScanStop(cs, data) ==
    IF \E i \in DOMAIN cs :
          Matches(data, cs[i].data) \/ TorchEqRaises(data, cs[i].data)
    THEN CHOOSE i \in DOMAIN cs :
            /\ Matches(data, cs[i].data) \/ TorchEqRaises(data, cs[i].data)
            /\ \A j \in 1..(i - 1) :
                   /\ ~Matches(data, cs[j].data)
                   /\ ~TorchEqRaises(data, cs[j].data)
    ELSE 0

ConstantWord == <<"c", "o", "n", "s", "t", "a", "n", "t">>

\* name = f"constant{len(self.constants)}" when no name is given.
DefaultedName(cs, name) ==
    IF name.some THEN name.s ELSE ConstantWord \o Str(Len(cs))

\* if name[0].isdigit(): name = f"constant_{name}"
DigitPrefixed(name) ==
    IF isdigit(name[1]) THEN ConstantWord \o <<"_">> \o name ELSE name

\* Mutant of SuffixLoop: the name is taken without looking it up.
SuffixLoopSkipped(cs, prefix, name, cnt) == name

\* while name in self.constants: name = f"{prefix}_{cnt}"; cnt += 1
RECURSIVE SuffixLoop(_, _, _, _)
SuffixLoop(cs, prefix, name, cnt) ==
    IF name \in Keys(cs)
    THEN SuffixLoop(cs, prefix, prefix \o <<"_">> \o Str(cnt), cnt + 1)
    ELSE name

\* The name allocate() settles on for a new entry.
AllocatedName(cs, name) ==
    LET prefix == re_sub_sane(DigitPrefixed(DefaultedName(cs, name)))
    IN  SuffixLoop(cs, prefix, prefix, 0)

\* ir.ConstantBuffer(name, FixedLayout(device, dtype, *static_sizes_strides(data)))
ConstantBuffer(name, data) ==
    [name |-> name, device |-> data.device, dtype |-> data.dtype,
     size |-> data.size, stride |-> data.stride]

NoResult == [name |-> <<>>]

\* add_tensor_constant(data, name): the table, the hashes, the result and
\* the exception after the call.
add_tensor_constant(cs, reprs, data, name) ==
    LET m == ScanStop(cs, data) IN
    IF m # 0 /\ TorchEqRaises(data, cs[m].data)
    THEN [constants |-> cs, constant_reprs |-> reprs,
          ret |-> NoResult, exc |-> Raised("NotImplementedError")]
    ELSE IF m # 0
    THEN [constants |-> cs, constant_reprs |-> reprs,
          ret |-> ConstantBuffer(cs[m].name, data), exc |-> NoExc]
    ELSE IF DefaultedName(cs, name) = <<>>
    THEN \* name[0] of the empty string
         [constants |-> cs, constant_reprs |-> reprs,
          ret |-> NoResult, exc |-> Raised("IndexError")]
    ELSE LET new == AllocatedName(cs, name) IN
         [constants |-> DictSet(cs, new, data),
          constant_reprs |-> (new :> Sha256(Repr(data))) @@ reprs,
          ret |-> ConstantBuffer(new, data), exc |-> NoExc]

TypeChars(type) ==
    CASE type = "cpu" -> <<"c", "p", "u">>
      [] type = "cuda" -> <<"c", "u", "d", "a">>

\* f"{name}_{device_override.type}{device_override.index or 0}"
AltName(name, device) ==
    name \o <<"_">> \o TypeChars(device.type)
         \o Str(IF device.has_index THEN device.index ELSE 0)

\* Tensor.to(device)
To(data, device) == [data EXCEPT !.device = device]

\* constant_name(name, device_override)
constant_name(cs, name, device_override) ==
    IF Lookup(cs, name).device = device_override \/ device_override = NoDevice
    THEN [constants |-> cs, ret |-> name]
    ELSE LET alt_name == AltName(name, device_override) IN
         [constants |-> IF alt_name \notin Keys(cs)
                        THEN DictSet(cs, alt_name, To(Lookup(cs, name), device_override))
                        ELSE cs,
          ret |-> alt_name]

AddTensorConstant ==
    \E data \in inputs.tensors, name \in inputs.names :
        LET r == add_tensor_constant(constants, constant_reprs, data, name) IN
        /\ Len(r.constants) <= MaxConstants
        /\ constants' = r.constants
        /\ constant_reprs' = r.constant_reprs
        /\ call' = [op |-> "add_tensor_constant", data |-> data, name |-> name]
        /\ ret' = r.ret
        /\ exc' = r.exc
        /\ UNCHANGED <<inputs, dispatchVars, mutVars, outVars, layVars, prefVars, shapeVars, cgVars, nodeVars>>

\* Dense constants are the ones copied to another device.
ConstantName ==
    \E name \in Keys(constants), device \in inputs.devices :
        LET r == constant_name(constants, name, device) IN
        /\ ~Lookup(constants, name).is_mkldnn
        /\ Len(r.constants) <= MaxConstants
        /\ constants' = r.constants
        /\ call' = [op |-> "constant_name", constant |-> name, device |-> device]
        /\ ret' = [name |-> r.ret]
        /\ exc' = NoExc
        /\ UNCHANGED <<constant_reprs, inputs, dispatchVars, mutVars, outVars, layVars, prefVars, shapeVars, cgVars, nodeVars>>

NoCall == [op |-> "none"]
NoInputs == [tensors |-> {}, names |-> {}, devices |-> {}]
NoDispatch == [handler |-> "none", made_fallback |-> FALSE, raised |-> "none"]

\* A GraphLowering right after __init__, nothing called yet.
FreshCall == call = NoCall /\ ret = NoResult /\ exc = NoExc

\* The components a specification leaves alone.
ConstIdle == constants = <<>> /\ constant_reprs = <<>> /\ inputs = NoInputs
DispatchIdle ==
    /\ lowerings = <<>> /\ implicit_fallbacks = FALSE
    /\ dispatch = NoDispatch /\ graph_id = 1
MutIdle ==
    /\ name_to_users = <<>> /\ mutated_buffers = {}
    /\ realized = {} /\ buffers = <<>> /\ name_to_buffer = <<>>
\* graph_outputs is None until output() runs.
NoOutputs == [some |-> FALSE, slots |-> <<>>]
OutIdle ==
    /\ graph_inputs = <<>> /\ graph_inputs_original = <<>>
    /\ graph_outputs = NoOutputs /\ storage = <<>>
    /\ mutations = {} /\ device_types = {} /\ device_idxs = {}
EmptyGraph == [convs |-> <<>>, others |-> 0, sdpa |-> FALSE]
NoRuntime == [hip |-> FALSE, cuda_is_available |-> FALSE,
              mkldnn_enabled |-> FALSE, mkldnn_is_available |-> FALSE]
LayIdle ==
    /\ gm = EmptyGraph
    /\ config = [layout_optimization |-> TRUE]
    /\ runtime = NoRuntime
    /\ decisions = {}
\* A graph without nodes.
NoModuleGraph == [n |-> 0, conv |-> {}, users |-> <<>>]
PrefIdle ==
    /\ module_graph = NoModuleGraph
    /\ nodes_prefer_channels_last = {}
\* A ShapeEnv without symbols.
NoShapeEnv == [var_to_val |-> <<>>, sources |-> <<>>]
ShapeIdle ==
    /\ shape_env = NoShapeEnv /\ reuse_shape_env = FALSE
    /\ input_layouts = <<>> /\ example_pool = {}
\* self.wrapper_code = None, self.scheduler = None
NoWrapperCode == [some |-> FALSE, cls |-> "None", device |-> "None"]
NoScheduler == [some |-> FALSE, buffers |-> <<>>]
DefaultCodegenEnv == [disable_cpp_codegen |-> FALSE, platform |-> "linux"]
CodegenIdle ==
    /\ cpp_wrapper = FALSE /\ cuda = FALSE
    /\ wrapper_code = NoWrapperCode /\ scheduler = NoScheduler
    /\ generated = FALSE /\ codegen_env = DefaultCodegenEnv
\* No node is being run.
NoNode == [index |-> 0, name |-> <<>>, users |-> <<>>,
           val |-> [kind |-> "None", strides |-> <<>>, dense |-> FALSE]]
NoFlags == [layout_opt |-> FALSE, has_mkldnn |-> FALSE, has_mkl |-> FALSE]
NoNodeResult == [kind |-> "None"]
\* What the environment of the interpreter holds for the argument of the
\* nodes run_node is called with before any of them ran: the node that
\* computes it, read by one convolution, and its value, a TensorBox over a
\* Pointwise that is no buffer yet.
ArgNode ==
    [index |-> 0, name |-> <<"n", "0">>,
     users |-> <<[op |-> "call_function", target |-> "aten.convolution.default"]>>,
     val |-> [kind |-> "Tensor", strides |-> <<2, 1>>, dense |-> TRUE]]
ArgValue ==
    [kind |-> "IRNode", id |-> "a", boxed |-> TRUE, reads |-> {"arg0"},
     data |-> "Pointwise", ndim |-> 2, hint_realizes |-> FALSE,
     exceeded |-> FALSE, inner |-> "None", indices |-> FALSE,
     origin_node |-> <<>>, inner_origin_node |-> <<>>, log |-> <<>>]
EnvArg(node, value) == [node |-> node, value |-> value]
UnrealizedArgs == <<EnvArg(ArgNode, ArgValue)>>
NodeIdle ==
    /\ current_node = NoNode /\ node_result = NoNodeResult
    /\ node_args = <<>>
    /\ user_visible_outputs = {} /\ lowering_flags = NoFlags

InitConst ==
    /\ constants = <<>>
    /\ constant_reprs = <<>>
    /\ inputs \in InputFamilies
    /\ FreshCall
    /\ DispatchIdle
    /\ MutIdle
    /\ OutIdle
    /\ LayIdle
    /\ PrefIdle
    /\ ShapeIdle
    /\ CodegenIdle
    /\ NodeIdle

NextConst == AddTensorConstant \/ ConstantName

SpecConst == InitConst /\ [][NextConst]_vars


(***************************************************************************)
(* The operator dispatcher: GraphLowering.call_function, and the dispatch  *)
(* of GraphLowering.run_node.                                              *)
(***************************************************************************)
\* A call target: what call_function reads of it.  name() of an OpOverload
\* is "<base>.<overload>"; base is name().split(".")[0].
Target(id, base, is_getitem, marker, op_overload) ==
    [id |-> id, base |-> base, is_getitem |-> is_getitem,
     marker |-> marker, op_overload |-> op_overload]

AtenAdd == Target("aten.add.Tensor", "aten::add", FALSE, FALSE, TRUE)
AtenWithDecomp == Target("aten.logit.default", "aten::logit", FALSE, FALSE, TRUE)
AtenWithoutDecomp == Target("aten.special_foo.default", "aten::special_foo", FALSE, FALSE, TRUE)
RoiAlign == Target("torchvision.roi_align.default", "torchvision::roi_align", FALSE, FALSE, TRUE)
PatternHandler == Target("pattern_matcher.handler", "", FALSE, TRUE, FALSE)
GetItem == Target("operator.getitem", "", TRUE, FALSE, FALSE)
BuiltinAdd == Target("operator.add", "", FALSE, FALSE, FALSE)
AtenConvolution == Target("aten.convolution.default", "aten::convolution", FALSE, FALSE, TRUE)

Targets == {AtenAdd, AtenWithDecomp, AtenWithoutDecomp, RoiAlign,
            PatternHandler, GetItem, BuiltinAdd, AtenConvolution}

\* lowering.layout_constraints: the operators registered with
\* add_layout_constraint.
layout_constraints == {"aten.convolution.default"}

\* What the layout constraint of a node does when it is called: it returns
\* the coerced arguments, or raises.
ConstraintOutcomes == {"none", "ValueError"}

\* lowering.FALLBACK_ALLOW_LIST
FALLBACK_ALLOW_LIST == {"torchvision::roi_align"}

\* get_decompositions([target]) is not empty
get_decompositions(target) == target.id \in {"aten.add.Tensor", "aten.logit.default"}

\* The registry when the process starts: the lowerings lowering.py registers.
StaticLowerings ==
    ("aten.add.Tensor" :> "native") @@ ("aten.convolution.default" :> "native")

\* What a handler does when invoked: it returns, raises an Exception, or
\* raises a BaseException that is no Exception.
HandlerOutcomes == {"none", "ValueError", "KeyboardInterrupt"}
IsException(e) == e \in {"ValueError"}

\* lowering.make_fallback(target): registers a fallback handler for target.
make_fallback(lw, target) == (target.id :> "fallback") @@ lw

\* LoweringException(e, target, args, kwargs)
LoweringException(e, target) ==
    [type |-> "LoweringException", cause |-> e, target |-> target.id]

\* Mutant of missing_operator: the two errors are swapped.
missing_operator_swapped(target) ==
    IF get_decompositions(target)
    THEN "MissingOperatorWithoutDecomp" ELSE "MissingOperatorWithDecomp"

\* The error of an operator without a lowering (lines 620-626).
missing_operator(target) ==
    IF get_decompositions(target)
    THEN "MissingOperatorWithDecomp" ELSE "MissingOperatorWithoutDecomp"

Resolved(lw, made, error) == [lowerings |-> lw, made_fallback |-> made, exc |-> error]

\* Mutant of resolve: the decomposition is looked up before
\* config.implicit_fallbacks is read.
resolve_decomp_first(lw, implicit, target) ==
    IF target.id \in DOMAIN lw THEN Resolved(lw, FALSE, NoExc)
    ELSE IF ~target.op_overload THEN Resolved(lw, FALSE, Raised("AssertionError"))
    ELSE IF target.base \in FALLBACK_ALLOW_LIST
    THEN Resolved(make_fallback(lw, target), TRUE, NoExc)
    ELSE IF get_decompositions(target)
    THEN Resolved(lw, FALSE, Raised("MissingOperatorWithDecomp"))
    ELSE IF implicit
    THEN Resolved(make_fallback(lw, target), TRUE, NoExc)
    ELSE Resolved(lw, FALSE, Raised("MissingOperatorWithoutDecomp"))

\* "if target not in lowerings: ..." (lines 602-626): the registry after it,
\* whether make_fallback was called, and the exception raised.
resolve(lw, implicit, target) ==
    IF target.id \in DOMAIN lw THEN Resolved(lw, FALSE, NoExc)
    ELSE IF ~target.op_overload THEN Resolved(lw, FALSE, Raised("AssertionError"))
    ELSE IF target.base \in FALLBACK_ALLOW_LIST
    THEN Resolved(make_fallback(lw, target), TRUE, NoExc)
    ELSE IF implicit
    THEN Resolved(make_fallback(lw, target), TRUE, NoExc)
    ELSE Resolved(lw, FALSE, Raised(missing_operator(target)))

Dispatched(lw, handler, made, raised, error) ==
    [lowerings |-> lw,
     dispatch |-> [handler |-> handler, made_fallback |-> made, raised |-> raised],
     exc |-> error]

\* An exception that leaves a call as it was raised.
Unwrapped(raised) == IF raised = "none" THEN NoExc ELSE Raised(raised)

\* call_function(target, args, kwargs).  args0_is_list: args[0] is a list,
\* tuple or dict; raised: what the handler raises if it is invoked.
call_function(lw, implicit, target, args0_is_list, raised) ==
    IF target.is_getitem /\ args0_is_list
    THEN \* super().call_function: target(*args, **kwargs)
         Dispatched(lw, "getitem", FALSE, raised, Unwrapped(raised))
    ELSE IF target.marker
    THEN \* passthrough lowerings from .pattern_matcher
         Dispatched(lw, "passthrough", FALSE, raised, Unwrapped(raised))
    ELSE LET r == resolve(lw, implicit, target) IN
         IF r.exc # NoExc
         THEN Dispatched(r.lowerings, "none", r.made_fallback, "none", r.exc)
         ELSE \* try: lowerings[target](*args, **kwargs) except Exception
              Dispatched(r.lowerings, "lowering", r.made_fallback, raised,
                         IF IsException(raised) THEN LoweringException(raised, target)
                         ELSE Unwrapped(raised))

\* The operators of the magic methods of a SymInt (method_to_operator(m) for
\* m in magic_methods): operator.getitem is none of them.
magic_ops == {"operator.add", "operator.mul", "operator.sub", "operator.floordiv"}
is_magic_method(target) == target.id \in magic_ops
is_sym_stride(target) == target.id = "aten.sym_stride"

\* The outcome of a node that is answered from n.meta["val"]: no handler is
\* invoked, nothing is raised, the registry is left alone.
KnownExpr(lw) == Dispatched(lw, "none", FALSE, "none", NoExc)

\* The dispatch of run_node(n) for a call_function node (lines 738-762).
\* unsupported_type: fallback_node_due_to_unsupported_type(n); val_is_SymInt:
\* isinstance(n.meta["val"], torch.SymInt); constraint: what
\* layout_constraints[n.target] raises when it is called.
run_node_dispatch(lw, implicit, target, args0_is_list, unsupported_type, val_is_SymInt, constraint, raised) ==
    IF ~target.is_getitem /\ unsupported_type
    THEN \* fallback_handler(n.target, add_to_fallback_set=False)(*args, **kwargs)
         Dispatched(lw, "type_fallback", FALSE, raised, Unwrapped(raised))
    ELSE IF target.id \in layout_constraints
    THEN \* args, kwargs = layout_constraints[n.target](n, *args, **kwargs)
         IF constraint # "none"
         THEN Dispatched(lw, "none", FALSE, "none", Raised(constraint))
         ELSE \* result = self.call_function(n.target, args, kwargs)
              call_function(lw, implicit, target, args0_is_list, raised)
    ELSE IF is_sym_stride(target) /\ val_is_SymInt
    THEN \* result = n.meta["val"].node.expr
         KnownExpr(lw)
    ELSE IF ~is_sym_stride(target) /\ is_magic_method(target) /\ val_is_SymInt
    THEN \* result = n.meta["val"].node.expr
         KnownExpr(lw)
    ELSE \* super().run_node(n): the interpreter calls self.call_function
         call_function(lw, implicit, target, args0_is_list, raised)

\* Whether run_node calls the layout constraint of the target.
calls_layout_constraint(target, unsupported_type) ==
    /\ target.is_getitem \/ ~unsupported_type
    /\ target.id \in layout_constraints

\* Whether run_node reaches call_function.
reaches_call_function(target, unsupported_type, val_is_SymInt, constraint) ==
    /\ target.is_getitem \/ ~unsupported_type
    /\ IF target.id \in layout_constraints THEN constraint = "none"
       ELSE ~((is_sym_stride(target) \/ is_magic_method(target)) /\ val_is_SymInt)

TakeDispatch(r) ==
    /\ lowerings' = r.lowerings
    /\ dispatch' = r.dispatch
    /\ exc' = r.exc
    /\ ret' = NoResult
    /\ UNCHANGED <<implicit_fallbacks, graph_id, constVars, mutVars, outVars, layVars, prefVars, shapeVars, cgVars, nodeVars>>

CallFunction ==
    \E target \in Targets, args0_is_list \in BOOLEAN, raised \in HandlerOutcomes :
        /\ call' = [op |-> "call_function", target |-> target,
                    args0_is_list |-> args0_is_list, via_call_function |-> TRUE]
        /\ TakeDispatch(call_function(lowerings, implicit_fallbacks, target,
                                      args0_is_list, raised))

\* config.implicit_fallbacks is set by the caller between calls.
SetImplicitFallbacks ==
    /\ implicit_fallbacks' = ~implicit_fallbacks
    /\ call' = [op |-> "set_implicit_fallbacks"]
    /\ dispatch' = NoDispatch /\ ret' = NoResult /\ exc' = NoExc
    /\ UNCHANGED <<lowerings, graph_id, constVars, mutVars, outVars, layVars, prefVars, shapeVars, cgVars, nodeVars>>

\* The process goes on to the next graph: GraphLowering.__init__ with the
\* default arguments on a module without nodes.  The tables of the graph
\* start empty; the registry, the configuration and the runtime are those
\* of the process.
NewGraph ==
    /\ graph_id < MaxGraphs
    /\ graph_id' = graph_id + 1
    /\ dispatch' = NoDispatch
    /\ constants' = <<>> /\ constant_reprs' = <<>>
    /\ name_to_users' = <<>> /\ mutated_buffers' = {}
    /\ realized' = {} /\ buffers' = <<>> /\ name_to_buffer' = <<>>
    /\ graph_inputs' = <<>> /\ graph_inputs_original' = <<>>
    /\ graph_outputs' = NoOutputs /\ storage' = <<>>
    /\ mutations' = {} /\ device_types' = {} /\ device_idxs' = {}
    /\ gm' = EmptyGraph /\ module_graph' = NoModuleGraph
    /\ nodes_prefer_channels_last' = {}
    /\ shape_env' = NoShapeEnv /\ reuse_shape_env' = FALSE
    /\ input_layouts' = <<>>
    /\ cpp_wrapper' = FALSE /\ cuda' = FALSE
    /\ wrapper_code' = NoWrapperCode /\ scheduler' = NoScheduler
    /\ generated' = FALSE
    /\ current_node' = NoNode /\ node_result' = NoNodeResult
    /\ node_args' = UnrealizedArgs
    /\ user_visible_outputs' = {}
    /\ lowering_flags' = [lowering_flags EXCEPT !.layout_opt = FALSE]
    /\ call' = NoCall /\ ret' = NoResult /\ exc' = NoExc
    /\ UNCHANGED <<lowerings, implicit_fallbacks, inputs, config, runtime,
                   decisions,
                   example_pool, codegen_env>>

InitDispatch ==
    /\ lowerings = StaticLowerings
    /\ implicit_fallbacks \in BOOLEAN
    /\ dispatch = NoDispatch
    /\ graph_id = 1
    /\ FreshCall
    /\ ConstIdle
    /\ MutIdle
    /\ OutIdle
    /\ LayIdle
    /\ PrefIdle
    /\ ShapeIdle
    /\ CodegenIdle
    /\ current_node = NoNode /\ node_result = NoNodeResult
    /\ node_args = UnrealizedArgs
    /\ user_visible_outputs = {} /\ lowering_flags = NoFlags

(***************************************************************************)
(* The user/read graph: GraphLowering.register_users_of and                *)
(* GraphLowering.mark_buffer_mutated.                                      *)
(***************************************************************************)
\* An IR node: boxed says that value.data and value.data.data are IR nodes
\* (a TensorBox over a StorageBox), reads is value.get_read_names().
IRNode(id, boxed, reads) ==
    [kind |-> "IRNode", id |-> id, boxed |-> boxed, reads |-> reads]
\* A value that is no IR node (a sympy expression, an int).
Expr == [kind |-> "Expr"]
\* A list or tuple of values.
List(items) == [kind |-> "list", items |-> items]

ReaderA == IRNode("a", TRUE, {"arg0"})
ReaderAB == IRNode("ab", TRUE, {"arg0", "arg1"})
ReaderB == IRNode("b", TRUE, {"arg1"})
Unboxed == IRNode("u", FALSE, {"arg0"})

\* The node outputs register_users_of is called with.
NodeOutputs ==
    { ReaderA, ReaderAB, ReaderB, Unboxed, Expr,
      List(<<ReaderA, ReaderB>>),
      List(<<List(<<ReaderAB>>), Unboxed, Expr>>) }

\* The names mark_buffer_mutated is called with.
BufferNames == {"arg0", "arg1", "arg2"}

\* self.name_to_users[read_name].append(value), for every read name
AppendUser(users, value) ==
    [name \in DOMAIN users \cup value.reads |->
        IF name \in value.reads
        THEN Append(IF name \in DOMAIN users THEN users[name] ELSE <<>>, value.id)
        ELSE users[name]]

\* register(value), the inner function of register_users_of
RECURSIVE register(_, _)
RECURSIVE registerAll(_, _, _)
registerAll(users, items, i) ==
    IF i > Len(items) THEN users
    ELSE registerAll(register(users, items[i]), items, i + 1)
register(users, value) ==
    IF value.kind = "list" THEN registerAll(users, value.items, 1)
    ELSE IF value.kind = "IRNode" /\ value.boxed THEN AppendUser(users, value)
    ELSE users

register_users_of(users, node_output) == register(users, node_output)

\* name_to_buffer of a GraphLowering whose buffers were registered one by
\* one: the result of register_buffer for each of them, in order.
RECURSIVE NameToBufferOf(_)
NameToBufferOf(bufs) ==
    IF bufs = <<>> THEN <<>>
    ELSE LET front == SubSeq(bufs, 1, Len(bufs) - 1)
         IN  ((<<"b", "u", "f">> \o Str(Len(front))) :> bufs[Len(bufs)])
                 @@ NameToBufferOf(front)

\* Mutant of register_buffer: the name counts the buffers from one.
register_buffer_from_one(bufs, by_name, buffer) ==
    LET name == <<"b", "u", "f">> \o Str(Len(bufs) + 1)
    IN  [name |-> name, buffers |-> Append(bufs, buffer),
         name_to_buffer |-> (name :> buffer) @@ by_name]

\* register_buffer(buffer): f"buf{len(self.buffers)}", the append, and the
\* entry of name_to_buffer.
register_buffer(bufs, by_name, buffer) ==
    LET name == <<"b", "u", "f">> \o Str(Len(bufs))
    IN  [name |-> name, buffers |-> Append(bufs, buffer),
         name_to_buffer |-> (name :> buffer) @@ by_name]

\* IRNode.realize() of the nodes of a list, in order: a node that is not
\* realized yet becomes a buffer and is registered.
RECURSIVE realize_each(_, _, _)
realize_each(state, users, i) ==
    IF i > Len(users) THEN state
    ELSE realize_each(
            IF users[i] \in state.realized THEN state
            ELSE LET r == register_buffer(state.buffers, state.name_to_buffer,
                                          users[i])
                 IN  [realized |-> state.realized \cup {users[i]},
                      buffers |-> r.buffers,
                      name_to_buffer |-> r.name_to_buffer],
            users, i + 1)

\* Mutant of mark_buffer_mutated: the readers of every buffer are realized.
mark_buffer_mutated_every_reader(users, mutated, state, name) ==
    LET all == {id \in {"a", "ab", "b"} :
                    \E n \in DOMAIN users : id \in Range(users[n])}
    IN  [mutated_buffers |-> mutated \cup {name},
         state |-> [realized |-> state.realized \cup all,
                    buffers |-> state.buffers,
                    name_to_buffer |-> state.name_to_buffer]]

\* mark_buffer_mutated(name)
mark_buffer_mutated(users, mutated, state, name) ==
    [mutated_buffers |-> mutated \cup {name},
     state |-> IF name \notin DOMAIN users THEN state
               ELSE realize_each(state, users[name], 1)]

RegisterUsersOf ==
    \E node_output \in NodeOutputs :
        LET users == register_users_of(name_to_users, node_output) IN
        /\ \A name \in DOMAIN users : Len(users[name]) <= MaxUsers
        /\ name_to_users' = users
        /\ call' = [op |-> "register_users_of", node_output |-> node_output]
        /\ ret' = NoResult /\ exc' = NoExc
        /\ UNCHANGED <<mutated_buffers, realized, buffers, name_to_buffer, constVars, dispatchVars, outVars, layVars, prefVars, shapeVars, cgVars, nodeVars>>

MarkBufferMutated ==
    \E name \in BufferNames :
        LET r == mark_buffer_mutated(name_to_users, mutated_buffers,
                                     [realized |-> realized, buffers |-> buffers,
                                      name_to_buffer |-> name_to_buffer], name)
        IN
        /\ mutated_buffers' = r.mutated_buffers
        /\ realized' = r.state.realized
        /\ buffers' = r.state.buffers
        /\ name_to_buffer' = r.state.name_to_buffer
        /\ call' = [op |-> "mark_buffer_mutated", buffer |-> name]
        /\ ret' = NoResult /\ exc' = NoExc
        /\ UNCHANGED <<name_to_users, constVars, dispatchVars, outVars, layVars, prefVars, shapeVars, cgVars, nodeVars>>

InitMut ==
    /\ name_to_users = <<>>
    /\ mutated_buffers = {}
    /\ realized = {}
    /\ buffers = <<>>
    /\ name_to_buffer = <<>>
    /\ FreshCall
    /\ ConstIdle
    /\ DispatchIdle
    /\ OutIdle
    /\ LayIdle
    /\ PrefIdle
    /\ ShapeIdle
    /\ CodegenIdle
    /\ NodeIdle

NextMut == RegisterUsersOf \/ MarkBufferMutated

SpecMut == InitMut /\ [][NextMut]_vars

(***************************************************************************)
(* Claims about the constant table.                                        *)
(***************************************************************************)
IsAdd(c, e) == c.op = "add_tensor_constant" /\ e = NoExc

\* Shape, stride, dtype, device and every element value are the same.
Identical(a, b) ==
    /\ a.size = b.size /\ a.stride = b.stride /\ a.dtype = b.dtype
    /\ a.device = b.device /\ a.vals = b.vals

AppendedEntry(before, after, name, data) ==
    /\ name \notin Keys(before)
    /\ after = Append(before, [name |-> name, data |-> data])

\* C1: a call of add_tensor_constant with a tensor identical to an entry of
\* the table (shape, stride, dtype, device, every element) resolves to that
\* entry's name and adds no entry; a call with a tensor that differs from
\* every entry adds an entry under a name no entry has.
C1_IdenticalResolvesDifferentAllocates ==
    [][call'.op = "add_tensor_constant" =>
        IF \E i \in DOMAIN constants : Identical(call'.data, constants[i].data)
        THEN /\ exc' = NoExc
             /\ constants' = constants
             /\ \E i \in DOMAIN constants :
                    /\ Identical(call'.data, constants[i].data)
                    /\ ret'.name = constants[i].name
        ELSE /\ exc' = NoExc
             /\ AppendedEntry(constants, constants', ret'.name, call'.data)]_vars

\* C2: constant_name(name, device) returns name and leaves the table alone
\* when entry name is on device; otherwise it returns another name, whose
\* entry is the entry name copied to device, added by this call unless an
\* earlier call added it.
C2_DerivedNameHoldsCopyOnDevice ==
    [][(call'.op = "constant_name" /\ call'.device # NoDevice) =>
        LET entry == Lookup(constants, call'.constant) IN
        IF entry.device = call'.device
        THEN ret'.name = call'.constant /\ constants' = constants
        ELSE /\ ret'.name # call'.constant
             /\ ret'.name \in Keys(constants')
             /\ Lookup(constants', ret'.name) = [entry EXCEPT !.device = call'.device]
             /\ IF ret'.name \in Keys(constants)
                THEN constants' = constants
                ELSE constants' = Append(constants,
                        [name |-> ret'.name,
                         data |-> [entry EXCEPT !.device = call'.device]])]_vars

SaneChars == LowerChars \cup UpperChars \cup DigitChars \cup {"_"}

SafeIdentifier(name) ==
    /\ name # <<>>
    /\ \A i \in 1..Len(name) : name[i] \in SaneChars
    /\ name[1] \notin DigitChars

\* C3: whenever add_tensor_constant changes the table, it appends one entry
\* whose name is a safe identifier and was not a key before; the entries
\* that were there stay as they were.
C3_AllocatedNameSafeAndFresh ==
    [][(IsAdd(call', exc') /\ constants' # constants) =>
        /\ SafeIdentifier(ret'.name)
        /\ AppendedEntry(constants, constants', ret'.name, call'.data)]_vars

\* C3 witness: the suggested name "c.0" was sanitized to "c_0", which was
\* taken, and the entry went in as "c_0_0".
C3_Witness ==
    /\ IsAdd(call, exc)
    /\ call.name = SomeName(<<"c", ".", "0">>)
    /\ ret.name = <<"c", "_", "0", "_", "0">>
    /\ constants[Len(constants)].name = ret.name

\* C4: every entry of the table has a hash in constant_reprs, constant_reprs
\* has no other key, and entries with identical content have the same hash.
C4_EveryConstantHasRepr ==
    /\ DOMAIN constant_reprs = Keys(constants)
    /\ \A i, j \in DOMAIN constants :
        (/\ constants[i].name \in DOMAIN constant_reprs
         /\ constants[j].name \in DOMAIN constant_reprs
         /\ Identical(constants[i].data, constants[j].data)
         /\ constants[i].data.is_mkldnn = constants[j].data.is_mkldnn)
        => constant_reprs[constants[i].name] = constant_reprs[constants[j].name]


(***************************************************************************)
(* Claims about the dispatcher.                                            *)
(***************************************************************************)
\* The step is a call of call_function (directly or from run_node).
IsCallFunction(c) == c.op \in {"call_function", "run_node"} /\ c.via_call_function

MissingErrors == {"MissingOperatorWithDecomp", "MissingOperatorWithoutDecomp"}

\* The operator has no direct-lowering marker, is an OpOverload absent from
\* the registry lw, and its base name is not on the allow-list.
Unregistered(lw, target) ==
    /\ ~target.marker
    /\ target.op_overload
    /\ target.id \notin DOMAIN lw
    /\ target.base \notin FALLBACK_ALLOW_LIST

\* C5: call_function on an unregistered operator with implicit fallbacks
\* disabled raises MissingOperatorWithDecomp when the operator has a
\* decomposition and MissingOperatorWithoutDecomp otherwise; no handler is
\* invoked and the registry is unchanged.
C5_MissingOperatorRaised ==
    [][(/\ IsCallFunction(call')
        /\ Unregistered(lowerings, call'.target)
        /\ ~implicit_fallbacks) =>
        /\ exc' = Raised(IF get_decompositions(call'.target)
                         THEN "MissingOperatorWithDecomp"
                         ELSE "MissingOperatorWithoutDecomp")
        /\ dispatch'.handler = "none"
        /\ ~dispatch'.made_fallback
        /\ lowerings' = lowerings]_vars

\* C5 witness: an operator that has a decomposition and no lowering was
\* called with implicit fallbacks disabled, after another operator had got
\* its fallback registered.
C5_Witness ==
    /\ IsCallFunction(call)
    /\ call.target = AtenWithDecomp
    /\ exc = Raised("MissingOperatorWithDecomp")
    /\ ~implicit_fallbacks
    /\ "aten.special_foo.default" \in DOMAIN lowerings

\* C6: with implicit fallbacks enabled, call_function on an unregistered
\* operator registers a fallback and dispatches to it without a Missing*
\* error; no step ever removes or changes a registry entry; and a call on a
\* registered operator dispatches to its handler without registering,
\* whatever the flag and whichever the graph.
C6_FallbackRegisteredAndKept ==
    [][/\ \A id \in DOMAIN lowerings :
            id \in DOMAIN lowerings' /\ lowerings'[id] = lowerings[id]
       /\ (/\ IsCallFunction(call')
           /\ Unregistered(lowerings, call'.target)
           /\ implicit_fallbacks) =>
            /\ exc'.type \notin MissingErrors
            /\ dispatch'.handler = "lowering"
            /\ dispatch'.made_fallback
            /\ call'.target.id \in DOMAIN lowerings'
            /\ lowerings'[call'.target.id] = "fallback"
       /\ (/\ IsCallFunction(call')
           /\ ~call'.target.marker
           /\ ~(call'.target.is_getitem /\ call'.args0_is_list)
           /\ call'.target.id \in DOMAIN lowerings) =>
            /\ exc'.type \notin MissingErrors
            /\ dispatch'.handler = "lowering"
            /\ ~dispatch'.made_fallback
            /\ lowerings' = lowerings]_vars

\* C6 witness: in a later graph, with implicit fallbacks disabled again, the
\* operator with a decomposition was dispatched to the fallback synthesized
\* for it earlier.
C6_Witness ==
    /\ graph_id = 2
    /\ ~implicit_fallbacks
    /\ IsCallFunction(call)
    /\ call.target = AtenWithDecomp
    /\ dispatch = [handler |-> "lowering", made_fallback |-> FALSE, raised |-> "none"]
    /\ lowerings["aten.logit.default"] = "fallback"

\* C7: whenever a dispatched lowering handler (from the registry, a fallback
\* registered on the fly, a pass-through handler, the type-fallback override
\* of run_node) raises an exception, the caller gets a LoweringException
\* carrying the operator and the cause.
C7_HandlerExceptionWrapped ==
    (/\ dispatch.handler \in {"lowering", "passthrough", "type_fallback"}
     /\ IsException(dispatch.raised))
    => exc = [type |-> "LoweringException", cause |-> dispatch.raised,
              target |-> call.target.id]

\* C7 as far as it holds: a handler taken from the registry.
C7_RegistryHandlerWrapped ==
    (dispatch.handler = "lowering" /\ IsException(dispatch.raised))
    => exc = [type |-> "LoweringException", cause |-> dispatch.raised,
              target |-> call.target.id]

(***************************************************************************)
(* Claims about the user/read graph.                                       *)
(***************************************************************************)
ReadersOf(users, name) == IF name \in DOMAIN users THEN Range(users[name]) ELSE {}

\* C8: mark_buffer_mutated(b) puts b in the mutated-buffer set and realizes
\* the nodes recorded as readers of b at the time of the call, and no other
\* node: not those recorded for other buffers only, and register_users_of
\* (which records the later readers) realizes nothing.
C8_MarkRealizesRecordedReaders ==
    [][/\ call'.op = "mark_buffer_mutated" =>
            /\ mutated_buffers' = mutated_buffers \cup {call'.buffer}
            /\ realized' = realized \cup ReadersOf(name_to_users, call'.buffer)
            /\ name_to_users' = name_to_users
       /\ call'.op = "register_users_of" =>
            /\ realized' = realized
            /\ mutated_buffers' = mutated_buffers]_vars

\* C8 witness: arg0 was marked mutated when "a" was its only reader; "ab"
\* became a reader of arg0 afterwards and "b" reads arg1 only: neither is
\* realized.
C8_Witness ==
    /\ "arg0" \in mutated_buffers
    /\ realized = {"a"}
    /\ "ab" \in ReadersOf(name_to_users, "arg0")
    /\ "b" \in ReadersOf(name_to_users, "arg1")
    /\ call.op = "register_users_of"

(***************************************************************************)
(* Graph inputs and outputs: GraphLowering.placeholder and                 *)
(* GraphLowering.output.                                                   *)
(***************************************************************************)
\* output() is called with a result list of at most MaxOutputs values.
MaxOutputs == 2

InputNames == {<<"x">>, <<"y">>}

\* The IR nodes a StorageBox holds.  A Pointwise is not realized yet; the
\* dataclass == of two IR nodes compares their fields.
InputBuffer(name, device) ==
    [kind |-> "InputBuffer", name |-> name, device |-> device]
ComputedBuffer(name) == [kind |-> "ComputedBuffer", name |-> name]
Pointwise(id) == [kind |-> "Pointwise", id |-> id]

TensorBox(box) == [kind |-> "TensorBox", box |-> box]
StorageBox(box) == [kind |-> "StorageBox", box |-> box]
ShapeAsConstantBuffer == [kind |-> "ShapeAsConstantBuffer"]
IntValue == [kind |-> "int"]

\* The storage box TensorBox.create makes for the placeholder of an input.
InputBox(name) == IF name = <<"x">> THEN "box_x" ELSE "box_y"
\* The storage boxes of two intermediate values of the graph: the first is
\* realized as buf0, the second is still a Pointwise.
IntermediateBoxes == {"t1", "t2"}
IntermediateStorage ==
    ("t1" :> ComputedBuffer(<<"b", "u", "f", "0">>)) @@ ("t2" :> Pointwise("t2"))

\* The example values of a placeholder node.
\* A tensor example has a size: for every dimension its concrete extent
\* (val) and whether it is a SymInt (sym).  The examples are contiguous.
SymIntExample == [kind |-> "SymInt", device |-> NoDevice, size |-> <<>>]
IntExample == [kind |-> "int", device |-> NoDevice, size |-> <<>>]
Dim(val, sym) == [val |-> val, sym |-> sym]
ShapedExample(device, size) ==
    [kind |-> "Tensor", device |-> device, size |-> size]
TensorExample(device) == ShapedExample(device, <<Dim(2, FALSE)>>)
Examples == {SymIntExample, IntExample,
             TensorExample(CpuDevice), TensorExample(CudaDevice(0))}

\* StorageBox.realize(): a Pointwise becomes a ComputedBuffer registered
\* under a fresh name; a buffer stays what it is.
StorageBox_realize(st, box) ==
    IF st.storage[box].kind = "Pointwise"
    THEN LET r == register_buffer(st.buffers, st.name_to_buffer,
                                  st.storage[box].id)
         IN  [st EXCEPT !.storage = [@ EXCEPT ![box] = ComputedBuffer(r.name)],
                        !.buffers = r.buffers,
                        !.name_to_buffer = r.name_to_buffer]
    ELSE st

\* ir.ExternKernel.realize_input(x): the realized storage box of a TensorBox,
\* a ShapeAsConstantBuffer for an int.
realize_input(st, x) ==
    IF x.kind = "TensorBox"
    THEN [StorageBox_realize(st, x.box) EXCEPT
              !.slots = Append(@, StorageBox(x.box))]
    ELSE [st EXCEPT !.slots = Append(@, ShapeAsConstantBuffer)]

\* [ir.ExternKernel.realize_input(x) for x in result]
RECURSIVE realize_inputs(_, _, _)
realize_inputs(st, result, i) ==
    IF i > Len(result) THEN st
    ELSE realize_inputs(realize_input(st, result[i]), result, i + 1)

\* ir.MutationLayout.realize_into(src, dst): dst is written by a copy of src.
realize_into(muts, src, dst) == muts \cup {[src |-> src.name, dst |-> dst.name]}

\* self.graph_outputs.index(value_storage_box): the first slot equal to the
\* box, 0 for the ValueError of a list without one.  Two storage boxes are
\* equal when they hold equal data.
IndexOfBox(storage_of, slots, box) ==
    LET hits == {i \in DOMAIN slots :
                    /\ slots[i].kind = "StorageBox"
                    /\ storage_of[slots[i].box] = storage_of[box]}
    IN  IF hits = {} THEN 0
        ELSE CHOOSE i \in hits : \A j \in hits : i <= j

\* try: ind = graph_outputs.index(box); graph_outputs[ind] = original
\* except ValueError: pass
redirect(storage_of, slots, box, original) ==
    LET ind == IndexOfBox(storage_of, slots, box)
    IN  IF ind = 0 THEN slots ELSE [slots EXCEPT ![ind] = original]

\* The body of the loop of output() for one item of graph_inputs.
rewrite_input(st, originals, name, value) ==
    IF value.kind # "TensorBox" THEN st
    ELSE LET realized_st == StorageBox_realize(st, value.box)
             data == realized_st.storage[value.box]
         IN  IF data.kind # "InputBuffer" \/ data.name # name
             THEN [realized_st EXCEPT
                      !.mutations = realize_into(@, data, originals[name]),
                      !.slots = redirect(realized_st.storage, @, value.box,
                                         originals[name])]
             ELSE realized_st

\* for name, value in self.graph_inputs.items(): ...
RECURSIVE rewrite_inputs(_, _, _, _)
rewrite_inputs(st, originals, items, i) ==
    IF i > Len(items) THEN st
    ELSE rewrite_inputs(
            rewrite_input(st, originals, items[i].name, items[i].data),
            originals, items, i + 1)

\* GraphLowering.output: the slots are the realized results, then every
\* rebound input is turned into a copy into its original buffer.
output(st, originals, items, result) ==
    rewrite_inputs(realize_inputs(st, result, 1), originals, items, 1)

(***************************************************************************)
(* Shapes: GraphLowering.symbolic_sizes_strides and static_sizes_strides.  *)
(***************************************************************************)
\* A tensor example has at most MaxDims dimensions.
MaxDims == 2

\* sympy expressions: an integer, a symbol (the index of the symbol in the
\* ShapeEnv), a product.
Integer(v) == [kind |-> "Integer", value |-> v]
Symbol(i) == [kind |-> "Symbol", index |-> i]
Mul(args) == [kind |-> "Mul", args |-> args]

RECURSIVE ProductOfValues(_)
ProductOfValues(exprs) ==
    IF exprs = <<>> THEN 1
    ELSE Head(exprs).value * ProductOfValues(Tail(exprs))

\* The product of expressions: an integer when every factor is one.
Product(exprs) ==
    IF \A i \in DOMAIN exprs : exprs[i].kind = "Integer"
    THEN Integer(ProductOfValues(exprs))
    ELSE IF Len(exprs) = 1 THEN exprs[1] ELSE Mul(exprs)

\* ex.stride() of a contiguous tensor with the sizes given.
ContiguousStrides(size) ==
    [i \in DOMAIN size |-> Product(SubSeq(size, i + 1, Len(size)))]

\* ex._has_symbolic_sizes_strides
has_symbolic_sizes_strides(ex) == \E i \in DOMAIN ex.size : ex.size[i].sym

\* The symbol a ShapeEnv has for a concrete value (duck shaping): the first
\* symbol with that hint, 0 when there is none.
DuckVar(env, val) ==
    LET hits == {i \in DOMAIN env.var_to_val : env.var_to_val[i] = val}
    IN  IF hits = {} THEN 0 ELSE CHOOSE i \in hits : \A j \in hits : i <= j

\* ShapeEnv: the symbol of a dimension with concrete value val; a new one is
\* allocated, with its source, when no symbol has that value.
create_symbol(env, val, source) ==
    IF DuckVar(env, val) # 0
    THEN [env |-> env, expr |-> Symbol(DuckVar(env, val))]
    ELSE [env |-> [var_to_val |-> Append(env.var_to_val, val),
                   sources |-> Append(env.sources, source)],
          expr |-> Symbol(Len(env.var_to_val) + 1)]

\* ShapeEnv.create_symbolic_sizes_strides_storage_offset(ex, source): the
\* sizes of ex, dimension by dimension.
RECURSIVE create_symbolic_sizes(_, _, _, _, _)
create_symbolic_sizes(env, ex, source, i, size) ==
    IF i > Len(ex.size) THEN [env |-> env, size |-> size]
    ELSE LET r == create_symbol(env, ex.size[i].val, source)
         IN  create_symbolic_sizes(r.env, ex, source, i + 1,
                                   Append(size, r.expr))

\* convert_shape_to_inductor(ex.size()): the expression of a SymInt (the
\* symbol the shared ShapeEnv gave the dimension when the example was
\* traced), the integer of an int.
convert_shape_to_inductor(env, ex) ==
    [i \in DOMAIN ex.size |->
        IF ex.size[i].sym THEN Symbol(DuckVar(env, ex.size[i].val))
        ELSE Integer(ex.size[i].val)]

\* GraphLowering.symbolic_sizes_strides
symbolic_sizes_strides(env, reuse, ex) ==
    IF reuse
    THEN LET size == convert_shape_to_inductor(env, ex)
         IN  [size |-> size, stride |-> ContiguousStrides(size), env |-> env]
    ELSE LET source == Len(env.var_to_val)
             r == create_symbolic_sizes(env, ex, source, 1, <<>>)
         IN  [size |-> r.size, stride |-> ContiguousStrides(r.size),
              env |-> r.env]

\* Mutant of static_sizes_strides: the static path resolves the sizes like
\* the symbolic path without a shared context.
static_sizes_strides_symbolic(env, ex) == symbolic_sizes_strides(env, FALSE, ex)

\* GraphLowering.static_sizes_strides
static_sizes_strides(env, ex) ==
    LET size == [i \in DOMAIN ex.size |-> Integer(ex.size[i].val)]
    IN  [size |-> size, stride |-> ContiguousStrides(size), env |-> env]

\* GraphLowering.add_device_idx(idx): idx is None (has_index is off) or an
\* index.
add_device_idx(idxs, has_index, index) ==
    IF has_index THEN idxs \cup {index} ELSE idxs

\* add_device_idx is public and is also called on its own.
AddDeviceIdx ==
    \E has_index \in BOOLEAN, index \in {0, 1} :
        /\ device_idxs' = add_device_idx(device_idxs, has_index, index)
        /\ call' = [op |-> "add_device_idx", has_index |-> has_index,
                    index |-> index]
        /\ ret' = NoResult
        /\ exc' = NoExc
        /\ UNCHANGED <<graph_inputs, graph_inputs_original, graph_outputs,
                       storage, mutations, device_types, shapeVars, constVars,
                       dispatchVars, mutVars, layVars, prefVars, cgVars, nodeVars>>

\* GraphLowering.placeholder
Placeholder ==
    \E target \in InputNames, example \in example_pool :
        /\ ~graph_outputs.some
        /\ target \notin Keys(graph_inputs)
        /\ call' = [op |-> "placeholder", target |-> target, example |-> example]
        /\ exc' = NoExc
        /\ IF example.kind \in {"SymInt", "int"}
           THEN /\ graph_inputs' = DictSet(graph_inputs, target, Expr)
                /\ ret' = [value |-> Expr]
                /\ UNCHANGED <<graph_inputs_original, storage, device_types,
                               device_idxs, shape_env, input_layouts>>
           ELSE LET box == InputBox(target)
                    buffer == InputBuffer(target, example.device)
                    layout ==
                        IF ~has_symbolic_sizes_strides(example)
                        THEN static_sizes_strides(shape_env, example)
                        ELSE symbolic_sizes_strides(shape_env, reuse_shape_env,
                                                    example)
                IN  /\ shape_env' = layout.env
                    /\ input_layouts' =
                           (target :> [size |-> layout.size,
                                       stride |-> layout.stride,
                                       example |-> example])
                               @@ input_layouts
                    /\ storage' = (box :> buffer) @@ storage
                    /\ graph_inputs' = DictSet(graph_inputs, target, TensorBox(box))
                    /\ graph_inputs_original' =
                           (target :> buffer) @@ graph_inputs_original
                    /\ device_types' = device_types \cup {example.device.type}
                    /\ device_idxs' =
                           add_device_idx(device_idxs, example.device.has_index,
                                          example.device.index)
                    /\ ret' = [value |-> TensorBox(box)]
        /\ UNCHANGED <<graph_outputs, mutations, reuse_shape_env, example_pool,
                       constVars, dispatchVars, mutVars, layVars, prefVars, cgVars, nodeVars>>

\* An in-place update of an input while the graph is lowered: the new value
\* is realized and the storage box of the input is made to hold its buffer.
InPlaceUpdate ==
    \E name \in Keys(graph_inputs), src \in IntermediateBoxes :
        /\ ~graph_outputs.some
        /\ Lookup(graph_inputs, name).kind = "TensorBox"
        /\ LET st == StorageBox_realize(
                         [storage |-> storage, buffers |-> buffers,
                          name_to_buffer |-> name_to_buffer], src)
               box == Lookup(graph_inputs, name).box
           IN  /\ storage' = [st.storage EXCEPT ![box] = st.storage[src]]
               /\ buffers' = st.buffers
               /\ name_to_buffer' = st.name_to_buffer
        /\ call' = [op |-> "in_place_update", target |-> name, src |-> src]
        /\ ret' = NoResult
        /\ exc' = NoExc
        /\ UNCHANGED <<graph_inputs, graph_inputs_original, graph_outputs,
                       mutations, device_types, device_idxs,
                       name_to_users, mutated_buffers, realized,
                       constVars, dispatchVars, layVars, prefVars, shapeVars, cgVars, nodeVars>>

\* The values a graph returns: the tensors of the graph and an int.
OutputValues == {TensorBox(box) : box \in DOMAIN storage} \cup {IntValue}

ResultLists == UNION {[1..n -> OutputValues] : n \in 0..MaxOutputs}

Output ==
    \E result \in ResultLists :
        /\ ~graph_outputs.some
        /\ LET st == output([storage |-> storage, buffers |-> buffers,
                             name_to_buffer |-> name_to_buffer,
                             slots |-> <<>>, mutations |-> mutations],
                            graph_inputs_original, graph_inputs, result)
           IN  /\ graph_outputs' = [some |-> TRUE, slots |-> st.slots]
               /\ storage' = st.storage
               /\ buffers' = st.buffers
               /\ name_to_buffer' = st.name_to_buffer
               /\ mutations' = st.mutations
        /\ call' = [op |-> "output", result |-> result]
        /\ ret' = NoResult
        /\ exc' = NoExc
        /\ UNCHANGED <<graph_inputs, graph_inputs_original, device_types,
                       device_idxs, name_to_users, mutated_buffers, realized,
                       constVars, dispatchVars, layVars, prefVars, shapeVars, cgVars, nodeVars>>

InitOutput ==
    /\ graph_inputs = <<>>
    /\ graph_inputs_original = <<>>
    /\ graph_outputs = NoOutputs
    /\ storage = IntermediateStorage
    /\ mutations = {}
    /\ device_types = {}
    /\ device_idxs = {}
    /\ name_to_users = <<>> /\ mutated_buffers = {} /\ realized = {}
    /\ buffers = <<"t1">>
    /\ name_to_buffer = NameToBufferOf(buffers)
    /\ FreshCall
    /\ ConstIdle
    /\ DispatchIdle
    /\ shape_env = NoShapeEnv
    /\ reuse_shape_env = FALSE
    /\ input_layouts = <<>>
    /\ example_pool = Examples
    /\ LayIdle
    /\ PrefIdle
    /\ CodegenIdle
    /\ NodeIdle

NextOutput == Placeholder \/ InPlaceUpdate \/ Output \/ AddDeviceIdx

SpecOutput == InitOutput /\ [][NextOutput]_vars

(***************************************************************************)
(* Claims about the output rewrite.                                        *)
(***************************************************************************)
TensorInputs == {e \in Range(graph_inputs) : e.data.kind = "TensorBox"}

\* The input is no longer bound to its original input buffer.
Rebound(e) ==
    \/ storage[e.data.box].kind # "InputBuffer"
    \/ storage[e.data.box].name # e.name

\* Slot i of the result handed to output() referenced the value input e holds.
SlotReferenced(i, e) ==
    /\ call.result[i].kind = "TensorBox"
    /\ storage[call.result[i].box] = storage[e.data.box]

\* No other input holds the value input e holds.
SoleHolder(e) ==
    \A o \in TensorInputs \ {e} : storage[o.data.box] # storage[e.data.box]

\* C9: after output(), every rebound tensor input has a copy-based mutation
\* from its new value into its original input buffer, and every output slot
\* that referenced that value refers to the original input buffer; an input
\* still bound to its original buffer has no mutation and its output slots
\* are the storage boxes they were.
C9_ReboundInputsRedirected ==
    (call.op = "output" /\ exc = NoExc) =>
        \A e \in TensorInputs :
            IF Rebound(e)
            THEN /\ [src |-> storage[e.data.box].name, dst |-> e.name] \in mutations
                 /\ SoleHolder(e) =>
                        \A i \in DOMAIN call.result :
                            SlotReferenced(i, e) =>
                                graph_outputs.slots[i] = graph_inputs_original[e.name]
            ELSE /\ \A m \in mutations : m.dst # e.name
                 /\ \A i \in DOMAIN call.result :
                        SlotReferenced(i, e) =>
                            graph_outputs.slots[i] = StorageBox(call.result[i].box)

\* The first slot that referenced the value of a rebound input is redirected
\* (what the code does).
C9_FirstSlotRedirected ==
    (call.op = "output" /\ exc = NoExc) =>
        \A e \in TensorInputs :
            (Rebound(e) /\ SoleHolder(e)) =>
                \A i \in DOMAIN call.result :
                    (/\ SlotReferenced(i, e)
                     /\ \A j \in 1..(i - 1) : ~SlotReferenced(j, e)) =>
                        graph_outputs.slots[i] = graph_inputs_original[e.name]

(***************************************************************************)
(* The layout-optimization decision: GraphLowering.decide_layout_opt.      *)
(***************************************************************************)
\* A graph has at most MaxConvs convolution nodes.
MaxConvs == 2
\* decide_layout_opt is called at most MaxCalls times in a row.
MaxCalls == 2

\* len(nodes) >= 300 * nconv
FewConvFactor == 300
\* size(0) <= 64 and size(1) <= 64
SmallChannels == 64

\* A node with target aten.convolution.default: the devices of args[0] and
\* args[1], whether their example values have free symbols, args[-1]
\* (groups) and the sizes 0, 1, 2 of the weight (out channels, in channels
\* per group, kernel extent).
Conv(input_device, weight_device, free_symbols, groups, weight_size) ==
    [input_device |-> input_device, weight_device |-> weight_device,
     free_symbols |-> free_symbols, groups |-> groups,
     weight_size |-> weight_size]

LargeSize == <<2 * SmallChannels, 2 * SmallChannels, 3>>

ConvKinds ==
    { Conv(CudaDevice(0), CudaDevice(0), FALSE, 1, LargeSize),
      Conv(CpuDevice, CpuDevice, FALSE, 1, LargeSize),
      Conv(CudaDevice(0), CudaDevice(0), TRUE, 1, LargeSize),
      \* a grouped convolution with more than one in-channel per group
      Conv(CudaDevice(0), CudaDevice(0), FALSE, 2,
           <<2 * SmallChannels, SmallChannels, 3>>),
      \* a depthwise convolution
      Conv(CudaDevice(0), CudaDevice(0), FALSE, 2 * SmallChannels,
           <<2 * SmallChannels, 1, 3>>),
      \* out channels half of the in channels, with and without a kernel extent
      Conv(CudaDevice(0), CudaDevice(0), FALSE, 1,
           <<SmallChannels, 2 * SmallChannels, 3>>),
      Conv(CudaDevice(0), CudaDevice(0), FALSE, 1,
           <<SmallChannels, 2 * SmallChannels, 1>>),
      \* small channels
      Conv(CpuDevice, CpuDevice, FALSE, 1, <<SmallChannels, SmallChannels, 3>>),
      \* on cpu: a dynamic shape, a grouped convolution, out channels half of
      \* the in channels
      Conv(CpuDevice, CpuDevice, TRUE, 1, LargeSize),
      Conv(CpuDevice, CpuDevice, FALSE, 2,
           <<2 * SmallChannels, SmallChannels, 3>>),
      Conv(CpuDevice, CpuDevice, FALSE, 1,
           <<SmallChannels, 2 * SmallChannels, 3>>) }

\* The numbers of nodes that are no convolution, for a graph of nconv
\* convolutions: none, and the two numbers around the node-count threshold
\* (that of one convolution when the graph has none).
OtherNodeCounts(nconv) ==
    LET k == IF nconv = 0 THEN 1 ELSE nconv
    IN  {0, (FewConvFactor - 1) * k - 1, (FewConvFactor - 1) * k}

\* gm.graph: its convolution nodes, the number of its other nodes and
\* whether one of them is a scaled-dot-product-attention node.
Graphs ==
    UNION {[convs : [1..n -> ConvKinds],
            others : OtherNodeCounts(n),
            sdpa : BOOLEAN] : n \in 0..MaxConvs}

Runtimes == [hip : BOOLEAN, cuda_is_available : BOOLEAN,
             mkldnn_enabled : BOOLEAN, mkldnn_is_available : BOOLEAN]

\* len(list(gm.graph.nodes))
NumNodes(g) == Len(g.convs) + g.others + (IF g.sdpa THEN 1 ELSE 0)

AllOnCpu(conv_nodes) ==
    \A n \in Range(conv_nodes) :
        n.input_device = CpuDevice /\ n.weight_device = CpuDevice

\* The rules after the mkldnn fast path, lines 274-359.
layout_opt_heuristics(g) ==
    LET conv_nodes == Range(g.convs)
        nconv == Len(g.convs)
    IN  IF NumNodes(g) >= FewConvFactor * nconv THEN FALSE
        ELSE IF \E n \in conv_nodes : n.free_symbols THEN FALSE
        ELSE IF \E n \in conv_nodes : n.groups > 1 /\ n.weight_size[2] > 1
             THEN FALSE
        ELSE IF \E n \in conv_nodes :
                    /\ n.weight_size[1] * 2 <= n.weight_size[2]
                    /\ n.weight_size[3] > 1
             THEN FALSE
        ELSE IF \A n \in conv_nodes :
                    /\ n.weight_size[1] <= SmallChannels
                    /\ n.weight_size[2] <= SmallChannels
             THEN FALSE
        ELSE IF g.sdpa THEN FALSE
        ELSE TRUE

\* Mutant of decide_layout_opt: the heuristics are looked at before the
\* mkldnn fast path.
decide_layout_opt_heuristics_first(g, cfg, rt) ==
    IF ~cfg.layout_optimization THEN FALSE
    ELSE IF Len(g.convs) = 0 THEN FALSE
    ELSE IF rt.hip /\ rt.cuda_is_available THEN FALSE
    ELSE IF ~layout_opt_heuristics(g) THEN FALSE
    ELSE TRUE

\* Mutant of decide_layout_opt: a decision to disable is kept for the graph
\* and returned again, whatever config.layout_optimization is by then.
decide_layout_opt_disabled_once(g, cfg, rt) ==
    IF \E d \in decisions : d.gm = g /\ d.runtime = rt /\ ~d.value
    THEN FALSE
    ELSE IF ~cfg.layout_optimization THEN FALSE
    ELSE IF Len(g.convs) = 0 THEN FALSE
    ELSE IF rt.hip /\ rt.cuda_is_available THEN FALSE
    ELSE IF /\ AllOnCpu(g.convs)
            /\ rt.mkldnn_enabled /\ rt.mkldnn_is_available
         THEN TRUE
    ELSE layout_opt_heuristics(g)

\* GraphLowering.decide_layout_opt(gm)
decide_layout_opt(g, cfg, rt) ==
    IF ~cfg.layout_optimization THEN FALSE
    ELSE IF Len(g.convs) = 0 THEN FALSE
    ELSE IF rt.hip /\ rt.cuda_is_available THEN FALSE
    ELSE IF /\ AllOnCpu(g.convs)
            /\ rt.mkldnn_enabled /\ rt.mkldnn_is_available
         THEN TRUE
    ELSE layout_opt_heuristics(g)

\* What a call of decide_layout_opt was given and what it returned.
Decision(g, cfg, rt, value) ==
    [gm |-> g, config |-> cfg, runtime |-> rt, value |-> value]

\* A call of decide_layout_opt; n counts the calls in a row.
DecideLayoutOpt ==
    LET n == IF call.op = "decide_layout_opt" THEN call.n + 1 ELSE 1
    IN  /\ n <= MaxCalls
        /\ \E value \in {decide_layout_opt(gm, config, runtime)} :
               /\ ret' = [value |-> value]
               /\ decisions' = decisions \cup {Decision(gm, config, runtime, value)}
        /\ call' = [op |-> "decide_layout_opt", n |-> n]
        /\ exc' = NoExc
        /\ UNCHANGED <<gm, config, runtime, constVars, dispatchVars, mutVars, outVars, prefVars, shapeVars, cgVars, nodeVars>>

\* config.layout_optimization is set between two calls.
SetLayoutOptimization ==
    \E b \in BOOLEAN :
        /\ b # config.layout_optimization
        /\ config' = [layout_optimization |-> b]
        /\ call' = [op |-> "set_layout_optimization"]
        /\ ret' = NoResult
        /\ exc' = NoExc
        /\ UNCHANGED <<gm, runtime, decisions, constVars, dispatchVars, mutVars, outVars, prefVars, shapeVars, cgVars, nodeVars>>

InitLayout ==
    /\ gm \in Graphs
    /\ config \in [layout_optimization : BOOLEAN]
    /\ runtime \in Runtimes
    /\ decisions = {}
    /\ FreshCall
    /\ ConstIdle
    /\ DispatchIdle
    /\ MutIdle
    /\ OutIdle
    /\ PrefIdle
    /\ ShapeIdle
    /\ CodegenIdle
    /\ NodeIdle

NextLayout == DecideLayoutOpt \/ SetLayoutOptimization

SpecLayout == InitLayout /\ [][NextLayout]_vars

(***************************************************************************)
(* Claims about the layout-optimization decision.                          *)
(***************************************************************************)
IsDecide(c) == c.op = "decide_layout_opt"

MaxNodes == 4

\* The graphs of n nodes, numbered in trace order: conv is the set of nodes
\* with target aten.convolution.default, users[i] the users of node i.  The
\* trace order is topological, a user comes after the node it uses.
ModuleGraphs(n) ==
    {[n |-> n, conv |-> c,
      users |-> [i \in 1..n |-> {j \in 1..n : <<i, j>> \in e}]] :
        c \in SUBSET (1..n),
        e \in SUBSET {p \in (1..n) \X (1..n) : p[2] > p[1]}}

TraceOrderGraphs(most) == UNION {ModuleGraphs(n) : n \in 1..most}

\* Mutant of backward_pass: every node that has a user joins the set.
backward_pass_of_every_producer(g, output_set, i) ==
    output_set \cup {k \in 1..i : k \in g.conv \/ g.users[k] # {}}

\* for n in reversed(self.module.graph.nodes): a convolution joins the set,
\* and so does a node with a user in the set.  i is the node looked at.
RECURSIVE backward_pass(_, _, _)
backward_pass(g, output_set, i) ==
    IF i = 0 THEN output_set
    ELSE backward_pass(g,
            IF i \in g.conv \/ g.users[i] \cap output_set # {}
            THEN output_set \cup {i} ELSE output_set,
            i - 1)

\* Mutant of forward_pass: the users of the nodes the backward pass found
\* are added, the users of the nodes added on the way are not.
forward_pass_of_snapshot(g, output_set, i) ==
    output_set \cup UNION {g.users[k] : k \in output_set}

\* for n in self.module.graph.nodes: if n in output_set: add its users.
RECURSIVE forward_pass(_, _, _)
forward_pass(g, output_set, i) ==
    IF i > g.n THEN output_set
    ELSE forward_pass(g,
            IF i \in output_set THEN output_set \cup g.users[i] ELSE output_set,
            i + 1)

find_nodes_prefer_channels_last(g) ==
    forward_pass(g, backward_pass(g, {}, g.n), 1)

\* The layout_opt argument of __init__: None, or the value the caller
\* forces.
LayoutOptArgs ==
    { [some |-> FALSE, value |-> FALSE],
      [some |-> TRUE, value |-> FALSE],
      [some |-> TRUE, value |-> TRUE] }

\* What decide_layout_opt reads of the graph: its convolutions, here all of
\* one kind, and the number of its other nodes.
GmOf(g, kind) ==
    [convs |-> [i \in 1..Cardinality(g.conv) |-> kind],
     others |-> g.n - Cardinality(g.conv),
     sdpa |-> FALSE]

\* The kinds of convolution, the flags and the runtimes __init__ is run
\* with.
InitConvKinds ==
    { Conv(CudaDevice(0), CudaDevice(0), FALSE, 1, LargeSize),
      Conv(CpuDevice, CpuDevice, FALSE, 1, <<SmallChannels, SmallChannels, 3>>) }
InitRuntimes ==
    { NoRuntime,
      [hip |-> FALSE, cuda_is_available |-> TRUE,
       mkldnn_enabled |-> TRUE, mkldnn_is_available |-> TRUE] }

\* __init__: self.layout_opt =
\*     layout_opt if layout_opt is not None else self.decide_layout_opt(gm)
self_layout_opt(arg, g, kind, cfg, rt) ==
    IF arg.some THEN arg.value ELSE decide_layout_opt(GmOf(g, kind), cfg, rt)

\* __init__: self.nodes_prefer_channels_last =
\*     self.find_nodes_prefer_channels_last() if self.layout_opt else set()
FindNodesPreferChannelsLast ==
    \E arg \in LayoutOptArgs, kind \in InitConvKinds,
       cfg \in [layout_optimization : BOOLEAN], rt \in InitRuntimes :
        LET layout_opt == self_layout_opt(arg, module_graph, kind, cfg, rt) IN
        /\ call = NoCall
        /\ nodes_prefer_channels_last' =
               IF layout_opt THEN find_nodes_prefer_channels_last(module_graph)
               ELSE {}
        /\ lowering_flags' = [lowering_flags EXCEPT !.layout_opt = layout_opt]
        /\ call' = [op |-> "find_nodes_prefer_channels_last",
                    layout_opt |-> layout_opt, forced |-> arg.some]
        /\ ret' = NoResult
        /\ exc' = NoExc
        /\ UNCHANGED <<module_graph, current_node, node_result, node_args,
                       user_visible_outputs, constVars, dispatchVars, mutVars,
                       outVars, layVars, shapeVars, cgVars>>

InitPrefer ==
    /\ module_graph \in TraceOrderGraphs(MaxNodes)
    /\ nodes_prefer_channels_last = {}
    /\ FreshCall
    /\ ConstIdle
    /\ DispatchIdle
    /\ MutIdle
    /\ OutIdle
    /\ LayIdle
    /\ ShapeIdle
    /\ CodegenIdle
    /\ NodeIdle

NextPrefer == FindNodesPreferChannelsLast

SpecPrefer == InitPrefer /\ [][NextPrefer]_vars

(***************************************************************************)
(* Claims about the layout-preference set.                                 *)
(***************************************************************************)
\* The nodes that consume the output of node x, directly or through a chain
\* of consumers: k rounds of adding the users of the nodes found.
RECURSIVE ConsumersWithin(_, _, _)
ConsumersWithin(g, found, k) ==
    IF k = 0 THEN found
    ELSE ConsumersWithin(g, found \cup UNION {g.users[y] : y \in found}, k - 1)
Consumers(g, x) == ConsumersWithin(g, g.users[x], g.n)

\* C11: with layout optimization on, every node that consumes the output of
\* a convolution, directly or through a chain of consumers of any length,
\* is in the preference set.
C11_ConsumersOfConvolutionsPreferred ==
    (call.op = "find_nodes_prefer_channels_last" /\ call.layout_opt) =>
        \A x \in module_graph.conv :
            Consumers(module_graph, x) \subseteq nodes_prefer_channels_last

\* A convolution whose consumer has a consumer that is neither a convolution
\* nor upstream of one: only the forward pass reaches it, in two steps.
C11_Witness ==
    /\ call.op = "find_nodes_prefer_channels_last" /\ call.layout_opt
    /\ module_graph.n = 3
    /\ module_graph.conv = {1}
    /\ module_graph.users = <<{2}, {3}, {}>>
    /\ 3 \in nodes_prefer_channels_last

(***************************************************************************)
(* Shape resolution of the graph inputs: placeholder against a ShapeEnv.   *)
(***************************************************************************)
\* The concrete extents of the dimensions of the examples.
Extents == {2, 3}

DimLists ==
    UNION {[1..n -> {Dim(v, b) : v \in Extents, b \in BOOLEAN}] : n \in 1..MaxDims}

ShapeExamples == {ShapedExample(CpuDevice, size) : size \in DimLists}

\* The ShapeEnv of the caller after tracing: a symbol for every extent.
SharedShapeEnv == [var_to_val |-> <<3, 2>>, sources |-> <<-1, -1>>]

InitShape ==
    /\ reuse_shape_env \in BOOLEAN
    /\ shape_env = IF reuse_shape_env THEN SharedShapeEnv ELSE NoShapeEnv
    /\ input_layouts = <<>>
    /\ example_pool = ShapeExamples
    /\ graph_inputs = <<>>
    /\ graph_inputs_original = <<>>
    /\ graph_outputs = NoOutputs
    /\ storage = IntermediateStorage
    /\ mutations = {}
    /\ device_types = {}
    /\ device_idxs = {}
    /\ FreshCall
    /\ ConstIdle
    /\ DispatchIdle
    /\ name_to_users = <<>> /\ mutated_buffers = {} /\ realized = {}
    /\ buffers = <<"t1">>
    /\ name_to_buffer = NameToBufferOf(buffers)
    /\ LayIdle
    /\ PrefIdle
    /\ CodegenIdle
    /\ NodeIdle

NextShape == Placeholder \/ AddDeviceIdx

SpecShape == InitShape /\ [][NextShape]_vars

(***************************************************************************)
(* Claims about shape resolution.                                          *)
(***************************************************************************)
\* The dimensions of the tensor inputs processed so far: input and position.
InputDims(layouts) ==
    {<<name, i>> : name \in DOMAIN layouts, i \in 1..MaxDims} \cap
    UNION {{<<name, i>> : i \in DOMAIN layouts[name].size} : name \in DOMAIN layouts}

ExtentOf(layouts, d) == layouts[d[1]].example.size[d[2]].val
ExprOf(layouts, d) == layouts[d[1]].size[d[2]]

AllIntegers(exprs) == \A i \in DOMAIN exprs : exprs[i].kind = "Integer"

\* An input without symbolic sizes has integer sizes and strides.
StaticInputsConcrete(layouts) ==
    \A name \in DOMAIN layouts :
        ~has_symbolic_sizes_strides(layouts[name].example) =>
            /\ AllIntegers(layouts[name].size)
            /\ AllIntegers(layouts[name].stride)
            /\ \A i \in DOMAIN layouts[name].size :
                   layouts[name].size[i] =
                       Integer(layouts[name].example.size[i].val)

\* A placeholder step for an input without symbolic sizes allocates no symbol.
StaticStepAllocatesNothing ==
    (/\ call'.op = "placeholder"
     /\ call'.example.kind = "Tensor"
     /\ ~has_symbolic_sizes_strides(call'.example)) => shape_env' = shape_env

\* C12 as stated: over all pairs of tensor inputs, dimensions of equal
\* extent have equal size expressions and dimensions of different extents
\* have different ones; an input without symbolic sizes has integer sizes
\* and strides and its placeholder allocates no symbol.
C12_EqualExtentsEqualExpressions ==
    [][/\ \A a, b \in InputDims(input_layouts') :
              a[1] # b[1] =>
                  (ExtentOf(input_layouts', a) = ExtentOf(input_layouts', b)
                      <=> ExprOf(input_layouts', a) = ExprOf(input_layouts', b))
       /\ StaticInputsConcrete(input_layouts')
       /\ StaticStepAllocatesNothing]_vars

\* C12, amended: over all dimensions that resolve to a symbol, equal extents
\* have the same symbol and different extents have different symbols; a
\* dimension that resolves to an integer resolves to its extent; an input
\* without symbolic sizes has integer sizes and strides and its placeholder
\* allocates no symbol.
C12_DuckShapedSymbols ==
    [][/\ \A a, b \in InputDims(input_layouts') :
              (/\ ExprOf(input_layouts', a).kind = "Symbol"
               /\ ExprOf(input_layouts', b).kind = "Symbol") =>
                  (ExtentOf(input_layouts', a) = ExtentOf(input_layouts', b)
                      <=> ExprOf(input_layouts', a) = ExprOf(input_layouts', b))
       /\ \A a \in InputDims(input_layouts') :
              ExprOf(input_layouts', a).kind = "Integer" =>
                  ExprOf(input_layouts', a).value = ExtentOf(input_layouts', a)
       /\ StaticInputsConcrete(input_layouts')
       /\ StaticStepAllocatesNothing]_vars

\* Two inputs resolved without a shared context, the second one static: the
\* first has the same symbol for its two dimensions of extent 2, the second
\* the integer 2, and the symbols are those the first input allocated.
C12_Witness ==
    /\ ~reuse_shape_env
    /\ DOMAIN input_layouts = InputNames
    /\ call.op = "placeholder" /\ call.target = <<"y">>
    /\ input_layouts[<<"x">>].example.size = <<Dim(2, TRUE), Dim(2, FALSE)>>
    /\ input_layouts[<<"x">>].size = <<Symbol(1), Symbol(1)>>
    /\ input_layouts[<<"y">>].size = <<Integer(2)>>
    /\ shape_env.var_to_val = <<2>>

(***************************************************************************)
(* Backend selection and code generation: init_wrapper_code,               *)
(* validate_can_generate_cpp_wrapper and codegen.                          *)
(***************************************************************************)
\* A graph has at most MaxGraphInputs inputs and MaxBuffers buffers.
MaxGraphInputs == 2
MaxBuffers == 2

\* supported_dtype in supported_dtype_of_cpp_wrapper
CppWrapperDtypes ==
    {"float32", "float64", "int64", "int32", "int16", "int8", "uint8",
     "bool", "bfloat16", "complex64"}

\* Mutant of supported_dtype_of_cpp_wrapper: float16 is always supported.
supported_dtype_with_float16(dtype, has_cuda) ==
    dtype \in CppWrapperDtypes \cup {"float16"}

supported_dtype_of_cpp_wrapper(dtype, has_cuda) ==
    dtype \in (IF has_cuda THEN CppWrapperDtypes \cup {"float16"}
               ELSE CppWrapperDtypes)

\* utils.get_sympy_Expr_dtype: int64 for an integer expression, float64 for
\* a float expression; an expression that is neither raises, none is drawn.
get_sympy_Expr_dtype(value) ==
    IF value.is_integer THEN "int64"
    ELSE IF value.is_float THEN "float64"
    ELSE "none"

\* may_get_constant_buffer_dtype(constant_buffer).  The argument is a sympy
\* Integer, Symbol or Expr, so the assertion passes; an Integer and a Symbol
\* are sympy.Expr too, so the tests that follow the Expr test are never
\* reached.
may_get_constant_buffer_dtype(value) ==
    IF value.cls = "Integer" THEN "int64"
    ELSE get_sympy_Expr_dtype(value)

\* The graph inputs of this component: a TensorBox with the dtype and the
\* device type of its input buffer, or a sympy expression.
TypedTensorBox(dtype, device_type) ==
    [kind |-> "TensorBox", dtype |-> dtype, device_type |-> device_type]
\* A sympy value: its class and what is_integer and is_float say.
SympyValue(cls, is_integer, is_float) ==
    [kind |-> "Expr", dtype |-> "None", device_type |-> "None",
     cls |-> cls, is_integer |-> is_integer, is_float |-> is_float]
\* What placeholder stores for a SymInt, an int and a float example.
SympyExpr == SympyValue("Symbol", TRUE, FALSE)
SympyInteger == SympyValue("Integer", TRUE, FALSE)
SympyFloat == SympyValue("Float", FALSE, TRUE)

InputValues ==
    { TypedTensorBox("float32", "cpu"), TypedTensorBox("float16", "cpu"),
      TypedTensorBox("float16", "cuda"), TypedTensorBox("float32", "xpu"),
      TypedTensorBox("complex128", "cpu"), SympyExpr, SympyInteger,
      SympyFloat }

\* graph_inputs: the input named arg<i-1> at position i.
ArgName(i) == <<"a", "r", "g">> \o Str(i - 1)
GraphInputLists ==
    UNION {{[i \in 1..n |-> [name |-> ArgName(i), data |-> values[i]]] :
               values \in [1..n -> InputValues]} : n \in 0..MaxGraphInputs}

\* A buffer of this component: only its device type is looked at.
BufferOn(device_type) == [kind |-> "Buffer", device_type |-> device_type]
BufferLists ==
    UNION {[1..n -> {BufferOn(d) : d \in {"cpu", "cuda", "xpu"}}] :
               n \in 0..MaxBuffers}

\* The device types placeholder has recorded for the inputs.
DeviceTypesOf(items) ==
    {items[i].data.device_type :
        i \in {k \in DOMAIN items : items[k].data.kind = "TensorBox"}}

\* get_wrapper_codegen_for_device: the wrapper generators registered by
\* init_backend_registration, None for another device.
RegisteredWrapperCodegen ==
    ("cpu" :> "WrapperCodeGen") @@ ("cuda" :> "WrapperCodeGen")
get_wrapper_codegen_for_device(device_type) ==
    IF device_type \in DOMAIN RegisteredWrapperCodegen
    THEN RegisteredWrapperCodegen[device_type] ELSE "None"

\* The dtype validate_can_generate_cpp_wrapper finds for an input.
InputDtype(value) ==
    IF value.kind = "TensorBox" THEN value.dtype
    ELSE may_get_constant_buffer_dtype(value)

\* GraphLowering.validate_can_generate_cpp_wrapper: the exception it raises.
validate_can_generate_cpp_wrapper(env, items, has_cuda) ==
    IF env.disable_cpp_codegen THEN Raised("CppWrapperCodeGenError")
    ELSE IF env.platform # "linux" THEN Raised("CppWrapperCodeGenError")
    ELSE IF \E i \in DOMAIN items :
                ~supported_dtype_of_cpp_wrapper(InputDtype(items[i].data), has_cuda)
         THEN Raised("CppWrapperCodeGenError")
    ELSE NoExc

WrapperCode(cls, device_type) ==
    [some |-> TRUE, cls |-> cls, device |-> device_type]


\* The non-cpu device types of the inputs and the buffers.
NonCpuDeviceTypes(types, bufs) ==
    (types \cup {bufs[i].device_type : i \in DOMAIN bufs}) \ {"cpu"}

\* GraphLowering.init_wrapper_code: self.cuda, self.wrapper_code and the
\* exception raised.
init_wrapper_code(is_cpp_wrapper, env, types, bufs, items, wrapper) ==
    LET has_cuda == "cuda" \in types
    IN  IF is_cpp_wrapper
        THEN LET e == validate_can_generate_cpp_wrapper(env, items, has_cuda)
             IN  [cuda |-> has_cuda,
                  wrapper_code |->
                      IF e # NoExc THEN wrapper
                      ELSE IF has_cuda THEN WrapperCode("CudaWrapperCodeGen", "cuda")
                      ELSE WrapperCode("CppWrapperCodeGen", "cpu"),
                  exc |-> e]
        ELSE LET device_types_ == NonCpuDeviceTypes(types, bufs)
                 only_cpu == device_types_ = {}
                 device_type == IF only_cpu THEN "cpu"
                                ELSE CHOOSE d \in device_types_ : TRUE
                 wrapper_code_gen_cls == get_wrapper_codegen_for_device(device_type)
             IN  IF Cardinality(device_types_) > 1
                 THEN [cuda |-> has_cuda, wrapper_code |-> wrapper,
                       exc |-> Raised("AssertionError")]
                 ELSE IF wrapper_code_gen_cls = "None"
                 THEN [cuda |-> has_cuda, wrapper_code |-> wrapper,
                       exc |-> Raised("AssertionError")]
                 ELSE [cuda |-> has_cuda,
                       wrapper_code |-> WrapperCode(wrapper_code_gen_cls, device_type),
                       exc |-> NoExc]

InitWrapperCode ==
    LET r == init_wrapper_code(cpp_wrapper, codegen_env, device_types, buffers,
                               graph_inputs, wrapper_code)
    IN  /\ call = NoCall
        /\ cuda' = r.cuda
        /\ wrapper_code' = r.wrapper_code
        /\ exc' = r.exc
        /\ call' = [op |-> "init_wrapper_code"]
        /\ ret' = NoResult
        /\ UNCHANGED <<cpp_wrapper, scheduler, generated, codegen_env,
                       constVars, dispatchVars, mutVars, outVars, layVars,
                       prefVars, shapeVars, nodeVars>>
    /\ NodeIdle

\* GraphLowering.codegen: the wrapper is selected, then the scheduler is
\* made of the buffers and the code is generated.
Codegen ==
    LET r == init_wrapper_code(cpp_wrapper, codegen_env, device_types, buffers,
                               graph_inputs, wrapper_code)
    IN  /\ call = NoCall
        /\ cuda' = r.cuda
        /\ wrapper_code' = r.wrapper_code
        /\ exc' = r.exc
        /\ IF r.exc # NoExc
           THEN /\ UNCHANGED <<scheduler, generated>>
                /\ ret' = NoResult
           ELSE /\ scheduler' = [some |-> TRUE, buffers |-> buffers]
                /\ generated' = TRUE
                /\ ret' = [value |-> "code"]
        /\ call' = [op |-> "codegen"]
        /\ UNCHANGED <<cpp_wrapper, codegen_env,
                       constVars, dispatchVars, mutVars, outVars, layVars,
                       prefVars, shapeVars, nodeVars>>

CodegenEnvs == [disable_cpp_codegen : BOOLEAN, platform : {"linux", "darwin"}]

InitCodegen ==
    /\ cpp_wrapper \in BOOLEAN
    /\ cuda = FALSE
    /\ wrapper_code = NoWrapperCode
    /\ scheduler = NoScheduler
    /\ generated = FALSE
    /\ codegen_env \in CodegenEnvs
    /\ graph_inputs \in GraphInputLists
    /\ device_types = DeviceTypesOf(graph_inputs)
    /\ buffers \in BufferLists
    /\ name_to_buffer = NameToBufferOf(buffers)
    /\ graph_inputs_original = <<>> /\ graph_outputs = NoOutputs
    /\ storage = <<>> /\ mutations = {} /\ device_idxs = {}
    /\ name_to_users = <<>> /\ mutated_buffers = {} /\ realized = {}
    /\ FreshCall
    /\ ConstIdle
    /\ DispatchIdle
    /\ LayIdle
    /\ PrefIdle
    /\ ShapeIdle
    /\ NodeIdle

NextCodegen == InitWrapperCode \/ Codegen

SpecCodegen == InitCodegen /\ [][NextCodegen]_vars

(***************************************************************************)
(* Claims about backend selection and code generation.                     *)
(***************************************************************************)
\* C13: init_wrapper_code raises and selects no wrapper generator when the
\* inputs and buffers touch more than one non-cpu device type, whatever
\* cpp_wrapper is; with at most one it selects the generator of that device
\* type, of cpu when there is none.
C13_MixedDevicesRejected ==
    call.op = "init_wrapper_code" =>
        LET touched == NonCpuDeviceTypes(device_types, buffers)
        IN  IF Cardinality(touched) > 1
            THEN exc # NoExc /\ ~wrapper_code.some
            ELSE exc = NoExc =>
                    /\ wrapper_code.some
                    /\ wrapper_code.device \in
                           (IF touched = {} THEN {"cpu"} ELSE touched)

\* The rejection of mixed device types without cpp_wrapper, which is what
\* the code does.
C13_MixedDevicesRejectedWithoutCppWrapper ==
    (call.op = "init_wrapper_code" /\ ~cpp_wrapper) =>
        (Cardinality(NonCpuDeviceTypes(device_types, buffers)) > 1 =>
            exc = Raised("AssertionError") /\ ~wrapper_code.some)

\* The float16 rule of supported_dtype_of_cpp_wrapper, stated on its own.
UnsupportedInput(value, types) ==
    /\ InputDtype(value) \notin CppWrapperDtypes
    /\ ~(InputDtype(value) = "float16" /\ "cuda" \in types)

CppWrapperPreconditionFails ==
    /\ cpp_wrapper
    /\ \/ codegen_env.disable_cpp_codegen
       \/ codegen_env.platform # "linux"
       \/ \E i \in DOMAIN graph_inputs :
              UnsupportedInput(graph_inputs[i].data, device_types)

\* C14: with cpp_wrapper requested and C++ codegen disabled, a platform
\* other than linux, or an input of unsupported dtype, codegen raises
\* CppWrapperCodeGenError, assigns no wrapper generator, creates no
\* scheduler and generates no code.
C14_CppWrapperFailsFast ==
    [][(call'.op = "codegen" /\ CppWrapperPreconditionFails) =>
           /\ exc' = Raised("CppWrapperCodeGenError")
           /\ wrapper_code' = NoWrapperCode
           /\ scheduler' = NoScheduler
           /\ generated' = FALSE
           /\ ret' = NoResult]_vars

\* codegen with cpp_wrapper on linux, codegen enabled, whose only failing
\* input is a float16 tensor on cpu.
C14_Witness ==
    /\ call.op = "codegen"
    /\ cpp_wrapper
    /\ ~codegen_env.disable_cpp_codegen /\ codegen_env.platform = "linux"
    /\ Len(graph_inputs) = 2
    /\ graph_inputs[1].data = TypedTensorBox("float32", "cpu")
    /\ graph_inputs[2].data = TypedTensorBox("float16", "cpu")
    /\ exc = Raised("CppWrapperCodeGenError")
    /\ ~wrapper_code.some /\ ~scheduler.some /\ ~generated

(***************************************************************************)
(* The buffer list: GraphLowering.register_buffer and get_buffer.          *)
(***************************************************************************)
\* The buffers that are registered, and None.
BufferObjects == {BufferOn("cpu"), BufferOn("cuda"), BufferOn("xpu")}
NoneValue == [kind |-> "None"]

\* buf<i>
BufferName(i) == <<"b", "u", "f">> \o Str(i)

\* The names get_buffer is asked for: buffers, registered or not, an input.
LookupNames == {BufferName(i) : i \in 0..MaxBuffers} \cup {ArgName(1)}

\* GraphLowering.get_buffer
get_buffer(by_name, items, buffer_name) ==
    IF buffer_name \in DOMAIN by_name THEN by_name[buffer_name]
    ELSE IF buffer_name \in Keys(items) THEN Lookup(items, buffer_name)
    ELSE NoneValue

RegisterBuffer ==
    \E buffer \in BufferObjects :
        LET r == register_buffer(buffers, name_to_buffer, buffer)
        IN  /\ Len(buffers) < MaxBuffers
            /\ buffers' = r.buffers
            /\ name_to_buffer' = r.name_to_buffer
            /\ call' = [op |-> "register_buffer", buffer |-> buffer]
            /\ ret' = [value |-> r.name]
            /\ exc' = NoExc
            /\ UNCHANGED <<name_to_users, mutated_buffers, realized, constVars,
                           dispatchVars, outVars, layVars, prefVars, shapeVars,
                           cgVars, nodeVars>>

GetBuffer ==
    \E buffer_name \in LookupNames :
        /\ call' = [op |-> "get_buffer", buffer_name |-> buffer_name]
        /\ ret' = [value |-> get_buffer(name_to_buffer, graph_inputs, buffer_name)]
        /\ exc' = NoExc
        /\ UNCHANGED <<mutVars, constVars, dispatchVars, outVars, layVars,
                       prefVars, shapeVars, cgVars, nodeVars>>

\* A graph without inputs, with the input arg0, or with an input that has
\* the name of a buffer.
InitBuffer ==
    /\ buffers = <<>>
    /\ name_to_buffer = <<>>
    /\ name_to_users = <<>> /\ mutated_buffers = {} /\ realized = {}
    /\ graph_inputs \in
           { <<>>,
             <<[name |-> ArgName(1), data |-> TypedTensorBox("float32", "cpu")]>>,
             <<[name |-> BufferName(0), data |-> TypedTensorBox("float32", "cpu")]>> }
    /\ graph_inputs_original = <<>> /\ graph_outputs = NoOutputs
    /\ storage = <<>> /\ mutations = {}
    /\ device_types = {} /\ device_idxs = {}
    /\ FreshCall
    /\ ConstIdle
    /\ DispatchIdle
    /\ LayIdle
    /\ PrefIdle
    /\ ShapeIdle
    /\ CodegenIdle
    /\ NodeIdle

NextBuffer == RegisterBuffer \/ GetBuffer

SpecBuffer == InitBuffer /\ [][NextBuffer]_vars

(***************************************************************************)
(* Claims about the buffer list.                                           *)
(***************************************************************************)
\* The i-th registered buffer (from 0) is at index i of the list under the
\* name buf<i>, and name_to_buffer has these entries only.
BuffersNamedByIndex(bufs, by_name) ==
    /\ DOMAIN by_name = {BufferName(i - 1) : i \in DOMAIN bufs}
    /\ Cardinality(DOMAIN by_name) = Len(bufs)
    /\ \A i \in DOMAIN bufs : by_name[BufferName(i - 1)] = bufs[i]

\* C15: a register_buffer step appends its buffer to the list and returns
\* buf<i> for the i-th registration, a name no earlier registration
\* returned; after every step name_to_buffer has exactly one entry per
\* registered buffer, that of buf<i> being the i-th buffer; get_buffer of
\* buf<i> returns the i-th buffer and changes nothing.
C15_BuffersAppendOnlyNamesUnique ==
    [][/\ BuffersNamedByIndex(buffers', name_to_buffer')
       /\ SubSeq(buffers', 1, Len(buffers)) = buffers
       /\ call'.op = "register_buffer" =>
              /\ buffers' = Append(buffers, call'.buffer)
              /\ ret'.value = BufferName(Len(buffers))
              /\ ret'.value \notin DOMAIN name_to_buffer
       /\ call'.op = "get_buffer" =>
              /\ buffers' = buffers /\ name_to_buffer' = name_to_buffer
              /\ \A i \in DOMAIN buffers :
                     call'.buffer_name = BufferName(i - 1) =>
                         ret'.value = buffers[i]]_vars

\* Two registrations of the same buffer object got the names buf0 and buf1,
\* and get_buffer(buf1) returns the second although an input is named buf0.
C15_Witness ==
    /\ buffers = <<BufferOn("cuda"), BufferOn("cuda")>>
    /\ Keys(graph_inputs) = {BufferName(0)}
    /\ call = [op |-> "get_buffer", buffer_name |-> BufferName(1)]
    /\ ret.value = BufferOn("cuda")

(***************************************************************************)
(* Claims about the order and the rules of decide_layout_opt.              *)
(***************************************************************************)
\* Rules 1 and 2 pass: the flag is on and the graph has a convolution.
FlagOnWithConvolutions ==
    config.layout_optimization /\ Len(gm.convs) > 0

\* Rule 3, the known-bad configuration, and rule 4, the mkldnn fast path.
KnownBadConfiguration == runtime.hip /\ runtime.cuda_is_available
FastPathApplies ==
    /\ \A i \in DOMAIN gm.convs :
           /\ gm.convs[i].input_device.type = "cpu"
           /\ gm.convs[i].weight_device.type = "cpu"
    /\ runtime.mkldnn_enabled /\ runtime.mkldnn_is_available

\* Rules 5, 6, 7, 9 and 10 on their own.
FewConvolutions == NumNodes(gm) >= FewConvFactor * Len(gm.convs)
DynamicShape == \E i \in DOMAIN gm.convs : gm.convs[i].free_symbols
GroupedConvolution ==
    \E i \in DOMAIN gm.convs :
        gm.convs[i].groups > 1 /\ gm.convs[i].weight_size[2] > 1
AllChannelsSmall ==
    \A i \in DOMAIN gm.convs :
        /\ gm.convs[i].weight_size[1] <= SmallChannels
        /\ gm.convs[i].weight_size[2] <= SmallChannels

\* C16: with the flag on and a convolution in the graph, the known-bad
\* configuration disables the optimization even when the fast path applies,
\* and otherwise a graph to which the fast path applies is enabled whatever
\* the later rules say.
C16_FastPathBeforeHeuristics ==
    (IsDecide(call) /\ FlagOnWithConvolutions) =>
        /\ KnownBadConfiguration => ret.value = FALSE
        /\ (~KnownBadConfiguration /\ FastPathApplies) => ret.value = TRUE

\* The fast path enables a graph of one small cpu convolution and one
\* grouped cpu convolution with an attention node.
C16_Witness ==
    /\ IsDecide(call) /\ FlagOnWithConvolutions
    /\ ~KnownBadConfiguration /\ FastPathApplies
    /\ Len(gm.convs) = 2
    /\ AllChannelsSmall = FALSE /\ GroupedConvolution /\ gm.sdpa
    /\ \E i \in DOMAIN gm.convs :
           gm.convs[i].weight_size = <<SmallChannels, SmallChannels, 3>>
    /\ ret.value = TRUE

\* The call gets to rule 8 and neither rule 9 nor rule 10 disables.
OnlyRule8Decides ==
    /\ FlagOnWithConvolutions
    /\ ~KnownBadConfiguration /\ ~FastPathApplies
    /\ ~FewConvolutions /\ ~DynamicShape /\ ~GroupedConvolution
    /\ ~AllChannelsSmall /\ ~gm.sdpa

\* Out channels less than half of the in channels, with a kernel extent.
LessThanHalf(n) ==
    n.weight_size[1] * 2 < n.weight_size[2] /\ n.weight_size[3] > 1

\* C17: where only rule 8 can disable, layout optimization is disabled
\* exactly when some convolution has out channels less than half of its in
\* channels and a kernel extent above 1; with out channels at least half of
\* the in channels, exactly half included, it is enabled.
C17_Rule8LessThanHalf ==
    (IsDecide(call) /\ OnlyRule8Decides) =>
        (ret.value = FALSE <=>
            \E i \in DOMAIN gm.convs : LessThanHalf(gm.convs[i]))

(***************************************************************************)
(* GraphLowering.run_node after the dispatch: the stride order of outputs  *)
(* and of inputs of as_strided, the realization of the result, its origin  *)
(* node, and the registration of its reads.                                *)
(***************************************************************************)
\* A node has at most MaxNodeUsers users.
MaxNodeUsers == 2

as_strided_ops ==
    { "aten.as_strided.default", "aten.as_strided_.default",
      "aten.as_strided_scatter.default" }

\* lowering.needs_realized_inputs: the overloads registered with
\* add_needs_realized_inputs, those of the mkldnn lowerings included.
needs_realized_inputs(flags) ==
    { "aten.as_strided.default", "aten.bmm.default",
      "aten.convolution.default", "aten.convolution_backward.default",
      "aten.mm.default", "aten._int_mm.default" }
    \cup (IF flags.has_mkldnn
          THEN { "mkldnn._convolution_pointwise.default",
                 "mkldnn._convolution_pointwise.binary",
                 "mkldnn._convolution_pointwise_.binary",
                 "mkldnn._convolution_transpose_pointwise.default",
                 "mkldnn._linear_pointwise.default",
                 "mkldnn._linear_pointwise.binary",
                 "aten.mkldnn_rnn_layer.default",
                 "onednn.qconv2d_pointwise.default",
                 "onednn.qconv2d_pointwise.binary",
                 "onednn.qlinear_pointwise.default" }
               \cup (IF flags.has_mkl THEN {"mkl._mkl_linear.default"} ELSE {})
          ELSE {})

\* need_fixed_layout, as run_node builds it for every user
need_fixed_layout(flags) ==
    { "aten.convolution_backward.default", "aten.mm.default",
      "aten._int_mm.default" }
    \cup (IF ~flags.layout_opt THEN {"aten.convolution.default"} ELSE {})
    \cup (IF flags.has_mkldnn
          THEN { "mkldnn._convolution_pointwise.default",
                 "mkldnn._convolution_pointwise.binary",
                 "mkldnn._convolution_pointwise_.binary",
                 "mkldnn._convolution_transpose_pointwise.default",
                 "mkldnn._linear_pointwise.default",
                 "mkldnn._linear_pointwise.binary",
                 "aten.mkldnn_rnn_layer.default",
                 "onednn.qconv2d_pointwise.default",
                 "onednn.qconv2d_pointwise.binary",
                 "onednn.qlinear_pointwise.default" }
               \cup (IF flags.has_mkl THEN {"mkl._mkl_linear.default"} ELSE {})
          ELSE {})

\* The users of a node: the output node, or a call of a target.
User(op, target) == [op |-> op, target |-> target]
UserKinds ==
    { User("output", "output"),
      User("call_function", "aten.add.Tensor"),
      User("call_function", "aten.as_strided.default"),
      User("call_function", "aten.mm.default"),
      User("call_function", "aten.convolution.default"),
      User("call_function", "mkl._mkl_linear.default") }
\* n.users is a dict of nodes: the users are distinct nodes, in the order
\* they were added.
UserLists == UNION {[1..k -> UserKinds] : k \in 0..MaxNodeUsers}

\* n.meta["val"]: a tensor with its strides and whether it is non-overlapping
\* and dense, or a SymInt.
TensorVal(strides, dense) ==
    [kind |-> "Tensor", strides |-> strides, dense |-> dense]
SymIntVal == [kind |-> "SymInt", strides |-> <<>>, dense |-> FALSE]
TensorVals ==
    { TensorVal(<<>>, TRUE),
      TensorVal(<<2, 1>>, TRUE),
      TensorVal(<<12, 4, 2, 1>>, TRUE),
      TensorVal(<<12, 1, 6, 3>>, TRUE),
      TensorVal(<<24, 8, 4, 2>>, FALSE) }

NodeName == <<"n", "1">>
FxNode(users, val) ==
    [index |-> 1, name |-> NodeName, users |-> users, val |-> val]
FxNodes ==
    {FxNode(users, val) : users \in UserLists, val \in TensorVals \cup {SymIntVal}}

\* The TensorBox a tensor node is lowered to: data is the class of
\* result.data.data (StorageBox when result.data is a view), ndim is len(result.get_size()), hint_realizes says
\* whether realize_hint() decides to realize, exceeded is what
\* has_exceeded_max_reads() answers; log lists the calls made on the result.
\* inner is the class of the node under result.data.data that run_node
\* looks at: the data of a ComputedBuffer, inputs[0] of a MultiOutput;
\* indices says whether the indices of a MultiOutput are not empty.
LoweredBox(data, ndim, hint_realizes, exceeded, inner, indices) ==
    [kind |-> "IRNode", id |-> "r", boxed |-> TRUE, reads |-> {"arg0"},
     data |-> data, ndim |-> ndim, hint_realizes |-> hint_realizes,
     exceeded |-> exceeded, inner |-> inner, indices |-> indices,
     origin_node |-> <<>>, inner_origin_node |-> <<>>, log |-> <<>>]
\* A ComputedBuffer holds a Pointwise, a MultiOutput without indices reads
\* the buffer of a fallback kernel.
LoweredTensorBox(data, ndim, hint_realizes, exceeded) ==
    LoweredBox(data, ndim, hint_realizes, exceeded,
               IF data = "ComputedBuffer" THEN "Pointwise"
               ELSE IF data = "MultiOutput" THEN "FallbackKernel"
               ELSE "None",
               FALSE)
\* The other classes a lowering returns; run_node treats them alike whatever
\* the strides of the example, so they are drawn for one shape.
OtherLoweredResults(ndim) ==
    { LoweredTensorBox("Reduction", ndim, FALSE, FALSE),
      LoweredTensorBox("StorageBox", ndim, FALSE, FALSE),
      LoweredTensorBox("ConstantBuffer", ndim, FALSE, FALSE),
      LoweredTensorBox("MultiOutput", ndim, FALSE, FALSE),
      LoweredBox("MultiOutput", ndim, FALSE, FALSE, "FallbackKernel", TRUE) }
LoweredResults(val) ==
    IF val.kind = "Tensor"
    THEN {LoweredTensorBox("Pointwise", Len(val.strides), h, e) :
              h \in BOOLEAN, e \in BOOLEAN}
         \cup {LoweredTensorBox("ComputedBuffer", Len(val.strides), FALSE, FALSE)}
         \cup (IF Len(val.strides) = 2 THEN OtherLoweredResults(2) ELSE {})
    ELSE {Expr}

isinstance_TensorBox(result) == result.kind = "IRNode" /\ result.boxed

\* A call made on the result.
Request(op, order, users) == [op |-> op, order |-> order, users |-> users]
Logged(result, request) == [result EXCEPT !.log = Append(@, request)]

\* ir.get_stride_order(strides): for every dimension the place of its
\* stride among the strides in ascending order.
get_stride_order(strides) ==
    [d \in DOMAIN strides |->
        Cardinality({e \in DOMAIN strides :
            strides[e] < strides[d] \/ (strides[e] = strides[d] /\ e > d)})]
NHWC_STRIDE_ORDER == <<3, 0, 2, 1>>

\* ir.ExternKernel.require_stride_order(result, order): the result in the
\* stride order asked for.
require_stride_order(result, order) ==
    Logged(result, Request("require_stride_order", order, 0))

\* The state the calls on the result work on: the result and the buffers
\* of the graph.
\* result.realize(): a Pointwise or Reduction becomes a ComputedBuffer and
\* is registered.  The buffer holds the loops themselves, with the origin
\* node they had.
TensorBox_realize(st) ==
    LET logged == Logged(st.result, Request("realize", <<>>, 0)) IN
    IF st.result.data \in {"Pointwise", "Reduction"}
    THEN LET r == register_buffer(st.buffers, st.name_to_buffer, st.result.id)
         IN  [result |-> [logged EXCEPT !.data = "ComputedBuffer",
                                        !.inner = st.result.data,
                                        !.inner_origin_node = st.result.origin_node],
              buffers |-> r.buffers, name_to_buffer |-> r.name_to_buffer]
    ELSE [st EXCEPT !.result = logged]

\* result.realize_hint(): the request, and the realization when ir decides
\* for it.
realize_hint(st) ==
    LET logged == Logged(st.result, Request("realize_hint", <<>>, 0)) IN
    IF st.result.hint_realizes /\ st.result.data \in {"Pointwise", "Reduction"}
    THEN LET r == register_buffer(st.buffers, st.name_to_buffer, st.result.id)
         IN  [result |-> [logged EXCEPT !.data = "ComputedBuffer",
                                        !.inner = st.result.data,
                                        !.inner_origin_node = st.result.origin_node],
              buffers |-> r.buffers, name_to_buffer |-> r.name_to_buffer]
    ELSE [st EXCEPT !.result = logged]

\* result.mark_reuse(users)
mark_reuse(st, users) ==
    [st EXCEPT !.result = Logged(@, Request("mark_reuse", <<>>, users))]

\* result.has_exceeded_max_reads()
has_exceeded_max_reads(result) == result.exceeded

is_output(n) == \E i \in DOMAIN n.users : n.users[i].op = "output"
is_input_for_as_strided(n) ==
    \E i \in DOMAIN n.users : n.users[i].target \in as_strided_ops

\* Mutant of stride_order_of_outputs: a four-dimensional node of the
\* preference set gets the channels-last order whatever its users are.
stride_order_of_outputs_as_strided_too(n, result, prefer, visible) ==
    IF (is_output(n) \/ is_input_for_as_strided(n)) /\ n.val.kind = "Tensor"
    THEN IF n.val.dense /\ Len(n.val.strides) # 0
         THEN require_stride_order(result,
                  IF /\ result.ndim = 4
                     /\ n.index \in prefer
                     /\ n.name \notin visible
                  THEN NHWC_STRIDE_ORDER
                  ELSE get_stride_order(n.val.strides))
         ELSE result
    ELSE result

\* Lines 771-796: the stride order required of a dense output and of a
\* dense input of as_strided.
stride_order_of_outputs(n, result, prefer, visible) ==
    IF (is_output(n) \/ is_input_for_as_strided(n)) /\ n.val.kind = "Tensor"
    THEN IF n.val.dense /\ Len(n.val.strides) # 0
         THEN require_stride_order(result,
                  IF /\ result.ndim = 4
                     /\ n.index \in prefer
                     /\ n.name \notin visible
                     /\ ~is_input_for_as_strided(n)
                  THEN NHWC_STRIDE_ORDER
                  ELSE get_stride_order(n.val.strides))
         ELSE result
    ELSE result

\* The body of "for user in n.users" (lines 802-845) for one user.
realize_for_user(st, n, user, flags) ==
    LET hinted ==
            IF user.target \in needs_realized_inputs(flags)
            THEN LET h == realize_hint(st) IN
                 IF user.target \in need_fixed_layout(flags)
                 THEN [h EXCEPT !.result =
                          require_stride_order(@, get_stride_order(n.val.strides))]
                 ELSE h
            ELSE st
    IN  IF user.op = "output" /\ hinted.result.data \in {"Pointwise", "Reduction"}
        THEN TensorBox_realize(hinted)
        ELSE hinted

RECURSIVE realize_for_users(_, _, _, _)
realize_for_users(st, n, flags, i) ==
    IF i > Len(n.users) THEN st
    ELSE realize_for_users(realize_for_user(st, n, n.users[i], flags),
                           n, flags, i + 1)

\* Mutant of realize_result: the users are looked at when there is one.
realize_result_of_any_user(st, n, flags) ==
    LET num_users == Len(n.users)
        looked == IF num_users > 0 /\ isinstance_TensorBox(st.result)
                  THEN mark_reuse(realize_for_users(st, n, flags, 1), Len(n.users))
                  ELSE st
    IN  IF isinstance_TensorBox(looked.result)
           /\ has_exceeded_max_reads(looked.result)
        THEN realize_hint(looked)
        ELSE looked

\* Lines 798-853: the realization of the result.  The users of a node are
\* distinct, len(set(n.users)) is their number.
realize_result(st, n, flags) ==
    LET num_users == Len(n.users)
        looked == IF num_users > 1 /\ isinstance_TensorBox(st.result)
                  THEN mark_reuse(realize_for_users(st, n, flags, 1), Len(n.users))
                  ELSE st
    IN  IF isinstance_TensorBox(looked.result)
           /\ has_exceeded_max_reads(looked.result)
        THEN realize_hint(looked)
        ELSE looked

\* The classes of the model that are ir.Loops, and those that are ir.Buffer.
LoopsClasses == {"Pointwise", "Reduction"}
BufferClasses ==
    { "Buffer", "InputBuffer", "ConstantBuffer", "ComputedBuffer",
      "TemplateBuffer", "ExternKernel", "FallbackKernel", "MultiOutput" }

\* isinstance(result.data, ir.StorageBox): the data of a StorageBox is no
\* StorageBox, the data of a view is one.
data_is_StorageBox(result) == result.data # "StorageBox"

\* Lines 863-878: the origin node of the loops or buffer of a TensorBox over
\* a StorageBox, of the loops of a ComputedBuffer, and of the buffer a
\* MultiOutput without indices reads; a view and any other data get none.
set_origin_node(result, n) ==
    IF isinstance_TensorBox(result) /\ data_is_StorageBox(result)
    THEN IF result.data \in LoopsClasses THEN [result EXCEPT !.origin_node = n.name]
         ELSE IF result.data \in BufferClasses
         THEN IF result.data = "ComputedBuffer" /\ result.inner \in LoopsClasses
              THEN [result EXCEPT !.origin_node = n.name,
                                  !.inner_origin_node = n.name]
              ELSE IF result.data = "MultiOutput" /\ ~result.indices
              THEN IF result.inner \in BufferClasses
                   THEN [result EXCEPT !.origin_node = n.name,
                                       !.inner_origin_node = n.name]
                   ELSE [result EXCEPT !.origin_node = n.name]
              ELSE [result EXCEPT !.origin_node = n.name]
         ELSE result
    ELSE result

\* run_node(n) from line 764 on, result being what the dispatch returned.
run_node_result(n, result, bufs, by_name, prefer, visible, flags) ==
    LET ordered == stride_order_of_outputs(n, result, prefer, visible)
        st == realize_result([result |-> ordered, buffers |-> bufs,
                              name_to_buffer |-> by_name], n, flags)
    IN  [st EXCEPT !.result = set_origin_node(@, n)]

\* layout_constraints[n.target](n, *args, **kwargs) when it returns: every
\* IR node among the arguments is realized and brought to the stride order
\* of the example value of the node that computes it.
RECURSIVE constrain_args(_, _, _, _)
constrain_args(args, bufs, by_name, i) ==
    IF i > Len(args)
    THEN [args |-> args, buffers |-> bufs, name_to_buffer |-> by_name]
    ELSE LET a == args[i]
             st == [result |-> a.value, buffers |-> bufs,
                    name_to_buffer |-> by_name]
             c == IF a.value.kind = "IRNode"
                  THEN [TensorBox_realize(st) EXCEPT !.result =
                           require_stride_order(@,
                               get_stride_order(a.node.val.strides))]
                  ELSE st
         IN  constrain_args([args EXCEPT ![i].value = c.result],
                            c.buffers, c.name_to_buffer, i + 1)

\* run_node(n), lines 729-882: the dispatch, and when it returns a result,
\* the stride order, the realization, the origin node and the registration
\* of the reads of the result.  lowered is what the handler returns when
\* it returns; a node answered from n.meta["val"] yields the expression.
run_node(lw, implicit, target, args0_is_list, unsupported_type, constraint, raised, n, args, lowered, users, bufs, by_name, prefer, visible, flags) ==
    LET val_is_SymInt == n.val.kind = "SymInt"
        d == run_node_dispatch(lw, implicit, target, args0_is_list,
                               unsupported_type, val_is_SymInt, constraint, raised)
        constrained ==
            IF calls_layout_constraint(target, unsupported_type)
               /\ constraint = "none"
            THEN constrain_args(args, bufs, by_name, 1)
            ELSE [args |-> args, buffers |-> bufs, name_to_buffer |-> by_name]
        result == IF reaches_call_function(target, unsupported_type,
                                           val_is_SymInt, constraint)
                     \/ (~target.is_getitem /\ unsupported_type)
                  THEN lowered ELSE Expr
        r == run_node_result(n, result, constrained.buffers,
                             constrained.name_to_buffer, prefer, visible, flags)
    IN  IF d.exc # NoExc
        THEN [lowerings |-> d.lowerings, dispatch |-> d.dispatch, exc |-> d.exc,
              result |-> NoNodeResult, args |-> constrained.args,
              buffers |-> constrained.buffers,
              name_to_buffer |-> constrained.name_to_buffer,
              name_to_users |-> users]
        ELSE [lowerings |-> d.lowerings, dispatch |-> d.dispatch, exc |-> NoExc,
              result |-> r.result, args |-> constrained.args,
              buffers |-> r.buffers, name_to_buffer |-> r.name_to_buffer,
              name_to_users |-> register_users_of(users, r.result)]

\* The nodes the dispatcher is run on, each with what its handler returns:
\* a symbolic scalar, and a tensor read by an addition.
DispatchNodes ==
    { [n |-> FxNode(<<>>, SymIntVal), lowered |-> Expr],
      [n |-> FxNode(<<User("call_function", "aten.add.Tensor")>>,
                    TensorVal(<<2, 1>>, TRUE)),
       lowered |-> LoweredTensorBox("Pointwise", 2, FALSE, FALSE)] }

\* The result of the node is registered as a reader already.
AlreadyRun(users, lowered) ==
    /\ lowered.kind = "IRNode"
    /\ \E name \in DOMAIN users : lowered.id \in Range(users[name])

\* The argument has one consumer, a convolution, whose layout constraint
\* has coerced it already.
ArgConsumed(args, target) ==
    /\ target.id \in layout_constraints
    /\ \E i \in DOMAIN args : args[i].value.log # <<>>

\* run_node on a node of any target.  args[0] is read by the getitem
\* branch alone; self.current_node is restored when run_node returns.  The
\* interpreter runs a node once in a graph.
RunNode ==
    \E target \in Targets, unsupported_type \in BOOLEAN,
       raised \in {"none", "ValueError"}, node \in DispatchNodes :
      \E args0_is_list \in (IF target.is_getitem THEN BOOLEAN ELSE {FALSE}),
         constraint \in (IF target.id \in layout_constraints
                         THEN ConstraintOutcomes ELSE {"none"}) :
        \E r \in {run_node(lowerings, implicit_fallbacks, target, args0_is_list,
                          unsupported_type, constraint, raised, node.n,
                          node_args, node.lowered, name_to_users, buffers, name_to_buffer,
                          nodes_prefer_channels_last, user_visible_outputs,
                          lowering_flags)} :
            /\ ~AlreadyRun(name_to_users, node.lowered)
            /\ ~ArgConsumed(node_args, target)
            /\ call' = [op |-> "run_node", target |-> target,
                        args0_is_list |-> args0_is_list,
                        via_call_function |->
                            reaches_call_function(target, unsupported_type,
                                                  node.n.val.kind = "SymInt",
                                                  constraint)]
            /\ lowerings' = r.lowerings
            /\ dispatch' = r.dispatch
            /\ exc' = r.exc
            /\ ret' = NoResult
            /\ node_result' = r.result
            /\ node_args' = r.args
            /\ buffers' = r.buffers
            /\ name_to_buffer' = r.name_to_buffer
            /\ name_to_users' = r.name_to_users
            /\ UNCHANGED <<implicit_fallbacks, graph_id, mutated_buffers, realized,
                           current_node, user_visible_outputs, lowering_flags, constVars,
                           outVars, layVars, prefVars, shapeVars, cgVars>>

NextDispatch == CallFunction \/ RunNode \/ SetImplicitFallbacks \/ NewGraph

SpecDispatch == InitDispatch /\ [][NextDispatch]_vars

\* The operators current_node calls and what their layout constraint does:
\* an operator without a constraint, a constrained operator whose
\* constraint returns, and one whose constraint raises.
RunNodeTargets ==
    { [target |-> AtenAdd, constraint |-> "none"],
      [target |-> AtenConvolution, constraint |-> "none"],
      [target |-> AtenConvolution, constraint |-> "ValueError"] }

\* run_node on the node and the result the graph was set up with: a call of
\* an operator with a native lowering, which returns node_result.
RunNodeResult ==
    /\ call = NoCall
    /\ \E t \in RunNodeTargets :
        \E r \in {run_node(lowerings, implicit_fallbacks, t.target, FALSE, FALSE,
                          t.constraint, "none", current_node, node_args,
                          node_result, name_to_users, buffers, name_to_buffer,
                          nodes_prefer_channels_last, user_visible_outputs,
                          lowering_flags)} :
            /\ lowerings' = r.lowerings
            /\ dispatch' = r.dispatch
            /\ exc' = r.exc
            /\ node_result' = r.result
            /\ node_args' = r.args
            /\ buffers' = r.buffers
            /\ name_to_buffer' = r.name_to_buffer
            /\ name_to_users' = r.name_to_users
    /\ call' = [op |-> "run_node_result", n |-> current_node.name]
    /\ ret' = NoResult
    /\ UNCHANGED <<current_node, user_visible_outputs, lowering_flags,
                   implicit_fallbacks, graph_id,
                   mutated_buffers, realized, constVars, outVars,
                   layVars, prefVars, shapeVars, cgVars>>

\* The convolution that reads the node just run: a node of four
\* dimensions the output node reads, lowered to a TensorBox.
UserNode ==
    [index |-> 2, name |-> <<"n", "2">>,
     users |-> <<User("output", "output")>>,
     val |-> TensorVal(<<12, 4, 2, 1>>, TRUE)]
UserResult ==
    [LoweredTensorBox("Pointwise", 4, FALSE, FALSE) EXCEPT !.id = "u"]

\* run_node on the convolution that reads the node just run: env holds the
\* result of that node, which the layout constraint of the convolution
\* coerces before the convolution is lowered.
RunUserNode ==
    /\ call.op = "run_node_result"
    /\ exc = NoExc
    /\ call.n = NodeName
    /\ \E i \in DOMAIN current_node.users :
           current_node.users[i].target = AtenConvolution.id
    /\ \E constraint \in ConstraintOutcomes :
        \E r \in {run_node(lowerings, implicit_fallbacks, AtenConvolution,
                          FALSE, FALSE, constraint, "none", UserNode,
                          <<EnvArg(current_node, node_result)>>,
                          UserResult, name_to_users, buffers, name_to_buffer,
                          nodes_prefer_channels_last, user_visible_outputs,
                          lowering_flags)} :
            /\ lowerings' = r.lowerings
            /\ dispatch' = r.dispatch
            /\ exc' = r.exc
            /\ node_result' = r.result
            /\ node_args' = r.args
            /\ buffers' = r.buffers
            /\ name_to_buffer' = r.name_to_buffer
            /\ name_to_users' = r.name_to_users
    /\ current_node' = UserNode
    /\ call' = [op |-> "run_node_result", n |-> UserNode.name]
    /\ ret' = NoResult
    /\ UNCHANGED <<user_visible_outputs, lowering_flags,
                   implicit_fallbacks, graph_id,
                   mutated_buffers, realized, constVars, outVars,
                   layVars, prefVars, shapeVars, cgVars>>

\* torch._C.has_mkl is read only when torch._C._has_mkldnn holds; the one
\* mkldnn consumer of the model is the mkl linear, so the two are drawn
\* together.
LoweringFlags ==
    {f \in [layout_opt : BOOLEAN, has_mkldnn : BOOLEAN, has_mkl : BOOLEAN] :
        f.has_mkl = f.has_mkldnn}

InitRunNode ==
    /\ current_node \in FxNodes
    /\ node_result \in LoweredResults(current_node.val)
    /\ node_args = UnrealizedArgs
    /\ user_visible_outputs \in {{}, {NodeName}}
    /\ lowering_flags \in LoweringFlags
    /\ module_graph = NoModuleGraph
    /\ nodes_prefer_channels_last \in {{}, {1}}
    /\ lowerings = StaticLowerings
    /\ implicit_fallbacks = FALSE
    /\ dispatch = NoDispatch
    /\ graph_id = 1
    /\ FreshCall
    /\ ConstIdle
    /\ MutIdle
    /\ OutIdle
    /\ LayIdle
    /\ ShapeIdle
    /\ CodegenIdle

NextRunNode == RunNodeResult \/ RunUserNode

SpecRunNode == InitRunNode /\ [][NextRunNode]_vars

(***************************************************************************)
(* Claims about run_node.                                                  *)
(***************************************************************************)
\* run_node has returned the result of current_node.
RanNode == call.op = "run_node_result" /\ exc = NoExc
ResultIsTensorBox == isinstance_TensorBox(node_result)

\* The calls of one kind made on the result, in order.
RequestsOf(op) == SelectSeq(node_result.log, LAMBDA r : r.op = op)
\* The realize_hint calls made so far on a value of the environment.
HintsOn(value) == SelectSeq(value.log, LAMBDA r : r.op = "realize_hint")

ConsumerNeedsRealizedInputs ==
    \E i \in DOMAIN current_node.users :
        current_node.users[i].target \in needs_realized_inputs(lowering_flags)

\* C18: a TensorBox result of a node with more than one consumer, one of
\* which needs realized inputs, gets a realize_hint; with one consumer the
\* only realize_hint is that of the read-count rule, which is made whenever
\* has_exceeded_max_reads() holds, whatever the number of consumers.  The
\* run of its one consumer adds no realize_hint either: the layout
\* constraint of the consumer realizes the value and requires a stride
\* order of it.
C18_RealizeHintRules ==
    /\ (RanNode /\ ResultIsTensorBox) =>
        /\ (Len(current_node.users) > 1 /\ ConsumerNeedsRealizedInputs) =>
               Len(RequestsOf("realize_hint")) >= 1
        /\ Len(current_node.users) = 1 =>
               Len(RequestsOf("realize_hint")) =
                   (IF node_result.exceeded THEN 1 ELSE 0)
        /\ node_result.exceeded =>
               node_result.log[Len(node_result.log)].op = "realize_hint"
    /\ call.op = "run_node_result" =>
        \A i \in DOMAIN node_args :
            (/\ isinstance_TensorBox(node_args[i].value)
             /\ Len(node_args[i].node.users) = 1) =>
                Len(HintsOn(node_args[i].value)) =
                    (IF node_args[i].value.exceeded THEN 1 ELSE 0)

\* Two consumers, an addition and a convolution, reads below the
\* threshold: one realize_hint.
C18_Witness ==
    /\ RanNode /\ ResultIsTensorBox
    /\ Len(current_node.users) = 2
    /\ current_node.users[1].target = "aten.add.Tensor"
    /\ current_node.users[2].target = "aten.convolution.default"
    /\ ~node_result.exceeded
    /\ Len(RequestsOf("realize_hint")) = 1

FixedLayoutConsumer ==
    \E i \in DOMAIN current_node.users :
        current_node.users[i].target \in need_fixed_layout(lowering_flags)

ExampleStrideOrder == get_stride_order(current_node.val.strides)
CoercedToExampleStrideOrder ==
    \E i \in DOMAIN node_result.log :
        node_result.log[i] =
            Request("require_stride_order", ExampleStrideOrder, 0)

\* C19: a TensorBox result of a node with a consumer that needs a fixed
\* layout is coerced to the stride order of the example value, whatever
\* the number of consumers.
C19_FixedLayoutConsumerCoerces ==
    (RanNode /\ ResultIsTensorBox /\ FixedLayoutConsumer) =>
        CoercedToExampleStrideOrder

\* With more than one consumer the coercion is made.
C19_CoercedWithSeveralConsumers ==
    (RanNode /\ ResultIsTensorBox /\ FixedLayoutConsumer
        /\ Len(current_node.users) > 1) =>
        CoercedToExampleStrideOrder

\* The stride-order rule of outputs applies to the node.
StrideOrderRuleApplies ==
    /\ is_output(current_node) \/ is_input_for_as_strided(current_node)
    /\ current_node.val.kind = "Tensor"
    /\ current_node.val.dense
    /\ Len(current_node.val.strides) >= 1

PreferredHiddenNotAsStrided ==
    /\ current_node.index \in nodes_prefer_channels_last
    /\ current_node.name \notin user_visible_outputs
    /\ ~is_input_for_as_strided(current_node)

\* The rule is the first to act on the result; the coercion of a fixed
\* layout consumer comes after a realize_hint.
FirstRequestIs(order) ==
    /\ node_result.log # <<>>
    /\ node_result.log[1] = Request("require_stride_order", order, 0)
NoRequestOfStrideOrderRule ==
    \/ ~ResultIsTensorBox
    \/ node_result.log = <<>>
    \/ node_result.log[1].op # "require_stride_order"

\* C20 as stated: where the rule applies the result is coerced to the
\* channels-last order if the node is in the preference set, is not a user
\* visible output and feeds no as_strided, and to the order of its strides
\* otherwise; where the rule does not apply there is no coercion.
C20_StrideOrderOfOutputs ==
    RanNode =>
        IF StrideOrderRuleApplies
        THEN FirstRequestIs(IF PreferredHiddenNotAsStrided
                            THEN NHWC_STRIDE_ORDER ELSE ExampleStrideOrder)
        ELSE NoRequestOfStrideOrderRule

\* C20 amended: the channels-last order is required only of a result of
\* four dimensions; a preferred node of another rank gets the order of its
\* strides.
C20_StrideOrderOfOutputsFourDims ==
    RanNode =>
        IF StrideOrderRuleApplies
        THEN FirstRequestIs(IF PreferredHiddenNotAsStrided
                               /\ node_result.ndim = 4
                            THEN NHWC_STRIDE_ORDER ELSE ExampleStrideOrder)
        ELSE NoRequestOfStrideOrderRule

\* A contiguous output of four dimensions in the preference set, not user
\* visible: the channels-last order is required.
C20_Witness ==
    /\ RanNode /\ StrideOrderRuleApplies /\ PreferredHiddenNotAsStrided
    /\ current_node.val.strides = <<12, 4, 2, 1>>
    /\ FirstRequestIs(NHWC_STRIDE_ORDER)
    /\ ExampleStrideOrder = <<3, 2, 1, 0>>

(***************************************************************************)
(* Claims about what the layout-preference set holds.                      *)
(***************************************************************************)
InitRan == call.op = "find_nodes_prefer_channels_last"

\* x is a convolution or has a convolution among its transitive consumers.
FeedsConvolution(g, x) ==
    x \in g.conv \/ Consumers(g, x) \cap g.conv # {}

\* C21: a node of the preference set is a convolution, or has a convolution
\* among its transitive consumers, or is a transitive consumer of such a
\* node; the set is empty when self.layout_opt is off and when the graph has
\* no convolution, also when the caller forces layout optimization on.
C21_PreferenceSetJustified ==
    InitRan =>
        /\ \A x \in nodes_prefer_channels_last :
               \/ FeedsConvolution(module_graph, x)
               \/ \E y \in 1..module_graph.n :
                      /\ FeedsConvolution(module_graph, y)
                      /\ x \in Consumers(module_graph, y)
        /\ ~call.layout_opt => nodes_prefer_channels_last = {}
        /\ module_graph.conv = {} => nodes_prefer_channels_last = {}

\* The caller forces layout optimization on for a chain of three nodes
\* without a convolution: the set is empty.
C21_Witness ==
    /\ InitRan /\ call.forced /\ call.layout_opt
    /\ module_graph.n = 3
    /\ module_graph.conv = {}
    /\ module_graph.users = <<{2}, {3}, {}>>
    /\ nodes_prefer_channels_last = {}

(***************************************************************************)
(* GraphLowering.get_dtype: the dtype of a constant, a buffer, an input or *)
(* a view of one of them.                                                  *)
(***************************************************************************)
AsStrided == <<"a", "s", "_", "s", "t", "r", "i", "d", "e", "d">>
ReinterpretTensor ==
    <<"r", "e", "i", "n", "t", "e", "r", "p", "r", "e", "t", "_",
      "t", "e", "n", "s", "o", "r">>

\* [a-zA-Z0-9_]
WordChars == LowerChars \cup UpperChars \cup DigitChars \cup {"_"}

IsPrefix(p, s) == Len(p) <= Len(s) /\ SubSeq(s, 1, Len(p)) = p

\* The length of the longest run of word characters of s that starts at i.
RECURSIVE WordRun(_, _)
WordRun(s, i) ==
    IF i <= Len(s) /\ s[i] \in WordChars THEN 1 + WordRun(s, i + 1) ELSE 0

\* re.match(r"(as_strided|reinterpret_tensor)\(([a-zA-Z0-9_]+),", s): the
\* groups of the match.  No word character is a comma, so the second group
\* is the whole run of word characters after the parenthesis.
NoMatch == [matched |-> FALSE, group1 |-> <<>>, group2 |-> <<>>]
re_match_view(s) ==
    LET words == {w \in {AsStrided, ReinterpretTensor} :
                      IsPrefix(w \o <<"(">>, s)}
    IN  IF words = {} THEN NoMatch
        ELSE LET w == CHOOSE x \in words : TRUE
                 start == Len(w) + 2
                 run == WordRun(s, start)
             IN  IF run >= 1 /\ start + run <= Len(s) /\ s[start + run] = ","
                 THEN [matched |-> TRUE, group1 |-> w,
                       group2 |-> SubSeq(s, start, start + run - 1)]
                 ELSE NoMatch

\* get_dtype(buffer_name): the dtype returned and the exception raised.
RECURSIVE get_dtype(_, _, _, _)
get_dtype(cs, by_name, items, buffer_name) ==
    IF buffer_name \in Keys(cs)
    THEN [value |-> Lookup(cs, buffer_name).dtype, exc |-> NoExc]
    ELSE IF buffer_name \in DOMAIN by_name
    THEN [value |-> by_name[buffer_name].dtype, exc |-> NoExc]
    ELSE IF buffer_name \in Keys(items)
    THEN [value |-> Lookup(items, buffer_name).dtype, exc |-> NoExc]
    ELSE LET m == re_match_view(buffer_name) IN
         IF m.matched THEN get_dtype(cs, by_name, items, m.group1)
         ELSE [value |-> "none", exc |-> Raised("KeyError")]

\* A view of a buffer as the wrapper code names it.
ViewName(word, buffer_name) ==
    word \o <<"(">> \o buffer_name \o <<",", " ", "s", ")">>

\* The names get_dtype is asked for: a constant, buffers, an input, views of
\* them, and a text that opens like a view but has no comma.
DtypeLookupNames ==
    LET direct == {ConstantWord \o Str(0), BufferName(0), BufferName(1),
                   ArgName(1)}
    IN  direct
        \cup {ViewName(w, b) : w \in {AsStrided, ReinterpretTensor}, b \in direct}
        \cup {AsStrided \o <<"(">> \o BufferName(0)}

GetDtype ==
    \E buffer_name \in DtypeLookupNames :
        LET r == get_dtype(constants, name_to_buffer, graph_inputs, buffer_name) IN
        /\ call = NoCall
        /\ call' = [op |-> "get_dtype", buffer_name |-> buffer_name]
        /\ ret' = IF r.exc = NoExc THEN [value |-> r.value] ELSE NoResult
        /\ exc' = r.exc
        /\ UNCHANGED <<mutVars, constVars, dispatchVars, outVars, layVars,
                       prefVars, shapeVars, cgVars, nodeVars>>

\* A buffer with its dtype.
TypedBuffer(dtype) == [kind |-> "ComputedBuffer", dtype |-> dtype]

\* The constant table after no constant or one constant was added, under
\* its default name or a name of the caller.
ConstantTables ==
    {<<>>}
    \cup {add_tensor_constant(<<>>, <<>>, [BaseTensor EXCEPT !.dtype = "float64"],
                              name).constants :
              name \in {NoName, SomeName(BufferName(0)), SomeName(ArgName(1))}}

\* No constant, buffer or input, or some of them, also under a name that
\* another table has.
InitDtype ==
    /\ constants \in ConstantTables
    /\ constant_reprs =
           [name \in Keys(constants) |-> Sha256(Repr(Lookup(constants, name)))]
    /\ inputs = NoInputs
    /\ buffers \in {<<>>, <<TypedBuffer("float16")>>,
                    <<TypedBuffer("float16"), TypedBuffer("int32")>>}
    /\ name_to_buffer = NameToBufferOf(buffers)
    /\ name_to_users = <<>> /\ mutated_buffers = {} /\ realized = {}
    /\ graph_inputs \in
           { <<>>,
             <<[name |-> ArgName(1), data |-> TypedTensorBox("int64", "cpu")]>>,
             <<[name |-> BufferName(0), data |-> TypedTensorBox("int64", "cpu")]>> }
    /\ graph_inputs_original = <<>> /\ graph_outputs = NoOutputs
    /\ storage = <<>> /\ mutations = {}
    /\ device_types = {} /\ device_idxs = {}
    /\ FreshCall
    /\ DispatchIdle
    /\ LayIdle
    /\ PrefIdle
    /\ ShapeIdle
    /\ CodegenIdle
    /\ NodeIdle

NextDtype == GetDtype

SpecDtype == InitDtype /\ [][NextDtype]_vars

(***************************************************************************)
(* Claims about get_dtype.                                                 *)
(***************************************************************************)
AskedDtype == call.op = "get_dtype"

KnownNames ==
    Keys(constants) \cup DOMAIN name_to_buffer \cup Keys(graph_inputs)

\* The dtype of a known name: the constant first, then the buffer, then the
\* input.
DtypeInOrder(name) ==
    IF name \in Keys(constants) THEN Lookup(constants, name).dtype
    ELSE IF name \in DOMAIN name_to_buffer THEN name_to_buffer[name].dtype
    ELSE Lookup(graph_inputs, name).dtype

\* The known names the asked name is a view of.
WrappedKnownNames(name) ==
    {b \in KnownNames :
        \E w \in {AsStrided, ReinterpretTensor} :
            IsPrefix(w \o <<"(">> \o b \o <<",">>, name)}

Returned(dtype) == exc = NoExc /\ ret = [value |-> dtype]

\* C22: get_dtype returns the dtype of a known name, looked up among the
\* constants, then the buffers, then the inputs; for a view
\* as_strided(<buf>, ...) or reinterpret_tensor(<buf>, ...) of a known name
\* it returns the dtype of <buf>; it raises KeyError otherwise.
C22_GetDtypeResolvesViews ==
    AskedDtype =>
        IF call.buffer_name \in KnownNames
        THEN Returned(DtypeInOrder(call.buffer_name))
        ELSE IF WrappedKnownNames(call.buffer_name) # {}
        THEN \E b \in WrappedKnownNames(call.buffer_name) :
                 Returned(DtypeInOrder(b))
        ELSE exc = Raised("KeyError")

\* What holds: a known name resolves in the order of the tables, and every
\* other name of the lookups, the views of known names included, raises
\* KeyError.
C22_OnlyDirectNamesResolve ==
    AskedDtype =>
        IF call.buffer_name \in KnownNames
        THEN Returned(DtypeInOrder(call.buffer_name))
        ELSE exc = Raised("KeyError")

====
